---- MODULE Spec2Model ----
(***************************************************************************)
(* Client-side channel runtime: Channel (channel.js), Http2CallStream      *)
(* (call-stream.js), Subchannel (subchannel.js), ResolvingLoadBalancer     *)
(* (resolving-load-balancer.js) and DnsResolver (resolver-dns.js).         *)
(*                                                                         *)
(* JavaScript runs one event-loop task at a time.  Every action below is   *)
(* one task: the handler of one event (an API call, an HTTP/2 event, a     *)
(* timer, the completion of a filter) followed by the promise jobs and     *)
(* process.nextTick callbacks it left behind, which run to completion, in  *)
(* FIFO order, before the next task (Drain).  Handlers call each other     *)
(* synchronously, so they are operators from a world record to a world     *)
(* record; an action commits the world its handler produced.               *)
(***************************************************************************)
EXTENDS Integers, Sequences, FiniteSets, TLC

VARIABLES chan, rlb, res, sub, sess, calls, watch

vars == <<chan, rlb, res, sub, sess, calls, watch>>

(***************************************************************************)
(* Bounds of the model.                                                    *)
(***************************************************************************)
MaxCalls == 1
MaxAttached == 2
MaxQueued == 2
MaxSessions == 1
MaxWatchers == 1
MaxPings == 2
MaxCancels == 2
MaxMessages == 3
MaxListeners == 2
MaxRefs == 2
MaxTransports == 2

(***************************************************************************)
(* Values.                                                                 *)
(***************************************************************************)
IDLE == "IDLE"
CONNECTING == "CONNECTING"
READY == "READY"
TRANSIENT_FAILURE == "TRANSIENT_FAILURE"
SHUTDOWN == "SHUTDOWN"

ConnectivityState == {CONNECTING, READY, TRANSIENT_FAILURE, IDLE, SHUTDOWN}

Status(code, details) == [code |-> code, details |-> details]

\* finalStatus === null
NoStatus == Status("null", "")

ConnectionDropped == Status("UNAVAILABLE", "Connection dropped")
DroppedWhileStarting == Status("UNAVAILABLE", "Connection dropped while starting call")
FailedToStart == Status("UNAVAILABLE", "Failed to start call on picked subchannel")
RequestDropped == Status("UNAVAILABLE", "Request dropped by load balancing policy")
FailedTrailers == Status("INTERNAL", "Failed to process received status")
HeaderError == Status("UNKNOWN", "error.message")
PluginError == Status("UNKNOWN", "Getting metadata from plugin failed")
UserCancel == Status("CANCELLED", "Cancelled on client")
DeadlineExceeded == Status("DEADLINE_EXCEEDED", "Deadline exceeded")
FilterError == Status("INTERNAL", "error.message")

\* the null that tryPush(null) and push(null) pass for the end of the stream
EndOfStream == 0
NoConnection == Status("UNAVAILABLE", "No connection established")
ResolutionFailed == Status("UNAVAILABLE", "Name resolution failed for target")
TxtFailed == Status("UNAVAILABLE", "TXT query failed")
ParsingFailed == Status("UNAVAILABLE", "Parsing service config failed")

\* The status the 'close' handler derives from stream.rstCode.
RstCodes == {"NO_ERROR", "REFUSED_STREAM", "CANCEL", "ENHANCE_YOUR_CALM", "INADEQUATE_SECURITY"}

RstStatus(rstCode) ==
  CASE rstCode = "REFUSED_STREAM" -> Status("UNAVAILABLE", "Stream refused by server")
    [] rstCode = "CANCEL" -> Status("CANCELLED", "Call cancelled")
    [] rstCode = "ENHANCE_YOUR_CALM" -> Status("RESOURCE_EXHAUSTED", "Bandwidth exhausted")
    [] rstCode = "INADEQUATE_SECURITY" -> Status("PERMISSION_DENIED", "Protocol not secure enough")
    [] OTHER -> Status("INTERNAL", "")

\* mappedStatusCode from the :status header of the response.
HttpStatuses == {200, 400, 401, 403, 404, 429, 502, 503, 504}

MappedStatusCode(httpStatus) ==
  CASE httpStatus = 400 -> "INTERNAL"
    [] httpStatus = 401 -> "UNAUTHENTICATED"
    [] httpStatus = 403 -> "PERMISSION_DENIED"
    [] httpStatus = 404 -> "UNIMPLEMENTED"
    [] httpStatus \in {429, 502, 503, 504} -> "UNAVAILABLE"
    [] OTHER -> "UNKNOWN"

(***************************************************************************)
(* Pickers.  pick() returns COMPLETE (with a subchannel or null), QUEUE or *)
(* TRANSIENT_FAILURE (with a status).                                      *)
(***************************************************************************)
QueuePicker == [kind |-> "QueuePicker", status |-> NoStatus]
UnavailablePicker(status) == [kind |-> "UnavailablePicker", status |-> status]
\* the picker a load balancer publishes with READY: COMPLETE with its subchannel
CompletePicker == [kind |-> "CompletePicker", status |-> NoStatus]
\* a picker that drops the request: COMPLETE with subchannel === null
DropPicker == [kind |-> "DropPicker", status |-> NoStatus]

pick(picker) ==
  CASE picker.kind = "QueuePicker" ->
         [pickResultType |-> "QUEUE", subchannel |-> FALSE, status |-> NoStatus]
    [] picker.kind = "UnavailablePicker" ->
         [pickResultType |-> "TRANSIENT_FAILURE", subchannel |-> FALSE, status |-> picker.status]
    [] picker.kind = "CompletePicker" ->
         [pickResultType |-> "COMPLETE", subchannel |-> TRUE, status |-> NoStatus]
    [] OTHER ->
         [pickResultType |-> "COMPLETE", subchannel |-> FALSE, status |-> NoStatus]

(***************************************************************************)
(* The world a handler works on: the variables, the queue of promise jobs  *)
(* and nextTick callbacks (mq), and ok, cleared when a handler needs more  *)
(* than the bounds give.                                                   *)
(***************************************************************************)
World ==
  [chan |-> [chan EXCEPT !.pickLog = <<>>, !.drains = 0, !.repeated = FALSE],
   rlb |-> [rlb EXCEPT !.log = <<>>],
   res |-> [res EXCEPT !.trace = <<>>],
   sub |-> [sub EXCEPT !.log = <<>>, !.seen = [x \in DOMAIN @ |-> <<>>], !.fired = "none"],
   sess |-> sess, calls |-> calls, watch |-> watch, mq |-> <<>>, ok |-> TRUE]

Job(k, c, st) == [k |-> k, c |-> c, st |-> st]

Enqueue(w, job) == [w EXCEPT !.mq = Append(@, job)]

\* hookFailed: the first hook of the filter stack that failed for the call
\* while the call had no final status
hookFails(w, c, hook) ==
  IF w.calls[c].finalStatus = NoStatus /\ w.calls[c].hookFailed = "none"
  THEN [w EXCEPT !.calls[c].hookFailed = hook]
  ELSE w

Range(seq) == {seq[i] : i \in DOMAIN seq}

\* Array.prototype.splice(indexOf(x), 1), a no-op when x is absent
RECURSIVE IndexOf(_, _, _)
IndexOf(seq, x, i) ==
  IF i > Len(seq) THEN 0
  ELSE IF seq[i] = x THEN i
  ELSE IndexOf(seq, x, i + 1)

RemoveAt(seq, i) ==
  [j \in 1..(Len(seq) - 1) |-> IF j < i THEN seq[j] ELSE seq[j + 1]]

Splice(seq, x) ==
  LET i == IndexOf(seq, x, 1)
  IN IF i = 0 THEN seq ELSE RemoveAt(seq, i)

(***************************************************************************)
(* Subchannel (subchannel.js).  There is one subchannel; sess holds the    *)
(* HTTP/2 sessions it opened, session = 0 is `session === null`.           *)
(***************************************************************************)
NoSession == 0

\* ~(1 << 31): the largest delay setInterval and setTimeout accept
KEEPALIVE_MAX_TIME_MS == 2147483647

Sessions == 1..MaxSessions

FreeSessions(w) == {s \in DOMAIN w.sess : w.sess[s].st = "unused"}

\* backoffTimeout.stop(); backoffTimeout.reset()
stopBackoff(w) == [w EXCEPT !.sub.backoffRunning = FALSE]

\* backoffTimeout.runOnce()
startBackoff(w) == [w EXCEPT !.sub.backoffRunning = TRUE]

\* clearInterval(keepaliveIntervalId); clearTimeout(keepaliveTimeoutId)
stopKeepalivePings(w) ==
  [w EXCEPT !.sub.keepaliveInterval = FALSE, !.sub.keepaliveTimeout = FALSE]

\* keepaliveTimeoutId is overwritten: a timer still pending under the old id
\* stays scheduled (staleTimeouts).  session.ping's callback is owed.
sendPing(w) ==
  LET s == w.sub.session
      w1 == IF w.sub.keepaliveTimeout
            THEN [w EXCEPT !.sub.staleTimeouts = @ + 1,
                           !.ok = @ /\ w.sub.staleTimeouts < MaxPings]
            ELSE [w EXCEPT !.sub.keepaliveTimeout = TRUE]
  IN IF s = NoSession
     THEN w1
     ELSE [w1 EXCEPT !.sess[s].pings = @ + 1, !.ok = @ /\ w.sess[s].pings < MaxPings]

startKeepalivePings(w) == sendPing([w EXCEPT !.sub.keepaliveInterval = TRUE])

\* http2.connect(): a fresh session, with the handlers of lines 190-219 bound to it
startConnectingInternal(w) ==
  IF FreeSessions(w) = {}
  THEN [w EXCEPT !.ok = FALSE]
  ELSE LET s == CHOOSE x \in FreeSessions(w) : \A y \in FreeSessions(w) : x <= y
       IN [w EXCEPT !.sub.session = s, !.sess[s].st = "connecting"]

\* session.close() and session = null, without the test for a session
closeSession_KeepSession(w) ==
  LET s == w.sub.session
  IN IF s = NoSession
     THEN w
     ELSE [w EXCEPT !.sess[s].closing = TRUE]

\* session.close() when session is not null; then session = null
closeSession(w) ==
  LET s == w.sub.session
  IN IF s = NoSession
     THEN w
     ELSE [w EXCEPT !.sess[s].closing = TRUE, !.sub.session = NoSession]

RECURSIVE transitionToState(_, _, _)

startConnecting(w) ==
  IF w.sub.connectivityState = IDLE
  THEN transitionToState(w, {IDLE}, CONNECTING)
  ELSE IF w.sub.connectivityState = TRANSIENT_FAILURE
  THEN [w EXCEPT !.sub.continueConnecting = TRUE]
  ELSE w

addConnectivityStateListener(w, x) ==
  [w EXCEPT !.sub.stateListeners = Append(@, x)]

removeConnectivityStateListener(w, x) ==
  [w EXCEPT !.sub.stateListeners = Splice(@, x)]

\* What the owners of a subchannel register as listeners: one that only
\* looks, one that detaches itself when called, and one that asks the
\* subchannel to connect again when it left READY or failed to connect.
ListenerKinds == {"observe", "detach", "reconnect"}

\* listener(this, previousState, newState); seen is what the listener was
\* told during the running handler
stateListener(w, x, previousState, newState) ==
  LET w1 == [w EXCEPT !.sub.seen[x] = Append(@, <<previousState, newState>>)]
  IN CASE w.sub.kinds[x] = "detach" -> removeConnectivityStateListener(w1, x)
       [] w.sub.kinds[x] = "reconnect" /\ newState \in {IDLE, TRANSIENT_FAILURE} ->
            startConnecting(w1)
       [] OTHER -> w1

\* for (const listener of [...this.stateListeners]) listener(this, previousState, newState)
RECURSIVE runStateListeners(_, _, _, _, _)
runStateListeners(w, listenersCopy, i, previousState, newState) ==
  IF i > Len(listenersCopy)
  THEN w
  ELSE runStateListeners(stateListener(w, listenersCopy[i], previousState, newState),
                         listenersCopy, i + 1, previousState, newState)

\* log: the state changes of the running handler in the order they were made,
\* each with the listeners registered when it was made
transitionToState(w, oldStates, newState) ==
  IF w.sub.connectivityState \notin oldStates
  THEN w
  ELSE LET previousState == w.sub.connectivityState
           w1 == [w EXCEPT !.sub.connectivityState = newState,
                           !.sub.log = Append(@, [previousState |-> previousState,
                                                  newState |-> newState,
                                                  listeners |-> w.sub.stateListeners])]
           w3 == CASE newState = READY ->
                        LET w2 == stopBackoff(w1)
                        IN [w2 EXCEPT !.sess[w2.sub.session].disconnectArmed = TRUE]
                   [] newState = CONNECTING ->
                        [startConnectingInternal(startBackoff(w1))
                           EXCEPT !.sub.continueConnecting = FALSE]
                   [] newState = TRANSIENT_FAILURE ->
                        stopKeepalivePings(closeSession(w1))
                   [] OTHER ->
                        stopKeepalivePings(closeSession(stopBackoff(w1)))
       IN runStateListeners(w3, w.sub.stateListeners, 1, previousState, newState)

\* shuts down as soon as no call is left, whatever the channels hold
checkBothRefcounts_CallsOnly(w) ==
  IF w.sub.callRefcount = 0
  THEN transitionToState(w, {CONNECTING, IDLE, READY}, TRANSIENT_FAILURE)
  ELSE w

checkBothRefcounts(w) ==
  IF w.sub.callRefcount = 0 /\ w.sub.refcount = 0
  THEN transitionToState(w, {CONNECTING, IDLE, READY}, TRANSIENT_FAILURE)
  ELSE w

callRef(w) ==
  LET w1 == IF w.sub.callRefcount = 0 THEN startKeepalivePings(w) ELSE w
  IN [w1 EXCEPT !.sub.callRefcount = @ + 1, !.sub.referenced = TRUE]

callUnref(w) ==
  LET w1 == [w EXCEPT !.sub.callRefcount = @ - 1]
  IN IF w1.sub.callRefcount = 0
     THEN checkBothRefcounts(stopKeepalivePings(w1))
     ELSE w1

ref(w) == [w EXCEPT !.sub.refcount = @ + 1, !.sub.referenced = TRUE]

unref(w) == checkBothRefcounts([w EXCEPT !.sub.refcount = @ - 1])

\* backoffTimeout.reset() only restores the initial delay
resetBackoff(w) == transitionToState(w, {TRANSIENT_FAILURE}, CONNECTING)

addDisconnectListener(w, c) ==
  [w EXCEPT !.sub.disconnectListeners = Append(@, c)]

removeDisconnectListener(w, c) ==
  [w EXCEPT !.sub.disconnectListeners = Splice(@, c)]

(***************************************************************************)
(* Http2CallStream (call-stream.js).                                       *)
(***************************************************************************)
\* Body of endCall when finalStatus === null.
endCallFirst(w, c, status) ==
  LET w1 == Enqueue([w EXCEPT !.calls[c].finalStatus = status,
                              !.calls[c].endCalls = @ + 1],
                    Job("emitStatus", c, status))
  IN IF w1.calls[c].subchannel
     THEN removeDisconnectListener(
            callUnref([w1 EXCEPT !.calls[c].callUnrefs = @ + 1]), c)
     ELSE w1

\* endCall invoked on a call that has ended already: `invoked` remembers it
endCallAgain(w, c) == [w EXCEPT !.calls[c].invoked = TRUE]

endCall_EmitAlways(w, c, status) ==
  IF w.calls[c].finalStatus = NoStatus
  THEN endCallFirst(w, c, status)
  ELSE Enqueue(endCallAgain(w, c), Job("emitStatus", c, status))

endCall_NoGuard(w, c, status) ==
  endCallFirst(IF w.calls[c].finalStatus = NoStatus THEN w ELSE endCallAgain(w, c),
               c, status)

endCall(w, c, status) ==
  IF w.calls[c].finalStatus = NoStatus
  THEN endCallFirst(w, c, status)
  ELSE endCallAgain(w, c)

disconnectListener(w, c) == endCall(w, c, ConnectionDropped)

\* stream.close(code): the first close fixes rstCode; nothing on a closed stream
closeStream(w, c, code) ==
  IF w.calls[c].stream = "open" /\ w.calls[c].rstCode = "none"
  THEN [w EXCEPT !.calls[c].rstCode = code]
  ELSE w

destroyHttp2Stream(w, c) ==
  IF w.calls[c].http2Stream /\ w.calls[c].stream # "closed"
  THEN closeStream(w, c, "CANCEL")
  ELSE w

\* `await this.handlingTrailers; <job>`: the job runs after the promise that
\* handlingTrailers holds now has settled.
awaitHandlingTrailers(w, job) ==
  IF w.calls[job.c].handlingTrailers = "resolved"
  THEN Enqueue(w, job)
  ELSE [w EXCEPT !.calls[job.c].trailersWaiters = Append(@, job)]

\* deferred: the status of the first cancelWithStatus that found the call
\* without a final status and handleTrailers in flight; direct: the status of
\* the first one that found it without a final status and no handleTrailers
\* in flight
noteCancel(w, c, status) ==
  IF w.calls[c].finalStatus # NoStatus THEN w
  ELSE IF w.calls[c].handlingTrailers = "pending"
  THEN IF w.calls[c].deferred = NoStatus
       THEN [w EXCEPT !.calls[c].deferred = status] ELSE w
  ELSE IF w.calls[c].direct = NoStatus
  THEN [w EXCEPT !.calls[c].direct = status] ELSE w

\* a variant that leaves the end of the call to the 'close' of the stream
cancelWithStatus_CloseOnly(w, c, status) ==
  destroyHttp2Stream(noteCancel(w, c, status), c)

cancelWithStatus_NoAwait(w, c, status) ==
  Enqueue(destroyHttp2Stream(noteCancel(w, c, status), c), Job("cancelEnd", c, status))

cancelWithStatus(w, c, status) ==
  awaitHandlingTrailers(destroyHttp2Stream(noteCancel(w, c, status), c),
                        Job("cancelEnd", c, status))

\* `await this.handlingHeaders; this.endCall(status)` inside handleTrailers
awaitHandlingHeaders(w, c, status) ==
  IF w.calls[c].handlingHeaders = "resolved"
  THEN Enqueue([w EXCEPT !.calls[c].trailers = "ending"], Job("trailersEnd", c, status))
  ELSE [w EXCEPT !.calls[c].trailers = "headers", !.calls[c].trailersResult = status]

handleTrailers(w, c) ==
  [w EXCEPT !.calls[c].handlingTrailers = "pending",
            !.calls[c].trailers = "filter",
            !.calls[c].trailersFirst = (w.calls[c].finalStatus = NoStatus)]

\* http2Stream.write(message, cb): a stream that was closed takes no data
\* and fails the write
http2Write(w, c) ==
  IF w.calls[c].stream = "open" /\ w.calls[c].rstCode = "none"
  THEN [w EXCEPT !.calls[c].out.wire = Append(@, w.calls[c].out.message),
                 !.calls[c].out.writing = "stream"]
  ELSE [w EXCEPT !.calls[c].out.writing = "none", !.calls[c].out.errored = TRUE]

\* http2Stream.end(cb)
http2End(w, c) ==
  IF w.calls[c].stream = "open" /\ w.calls[c].rstCode = "none"
  THEN [w EXCEPT !.calls[c].out.wireEnded = TRUE, !.calls[c].out.final = "stream"]
  ELSE [w EXCEPT !.calls[c].out.final = "stream"]

\* Http2CallStream._write: the message enters the sendMessage filters
write(w, c, message) ==
  [w EXCEPT !.calls[c].out.writing = "filter", !.calls[c].out.message = message]

\* the continuation of filterStack.sendMessage in _write
writeFiltered_DropUnattached(w, c) ==
  IF ~w.calls[c].http2Stream
  THEN [w EXCEPT !.calls[c].out.writing = "stream"]
  ELSE http2Write(w, c)

writeFiltered(w, c) ==
  IF ~w.calls[c].http2Stream
  THEN [w EXCEPT !.calls[c].out.writing = "pending"]
  ELSE http2Write(w, c)

\* Http2CallStream._final
final(w, c) ==
  IF ~w.calls[c].http2Stream
  THEN [w EXCEPT !.calls[c].out.final = "pending"]
  ELSE http2End(w, c)

\* Writable: with no _write outstanding, the next buffered chunk goes to
\* _write; after the last one of a stream that was ended, _final runs
writableNext(w, c) ==
  LET o == w.calls[c].out
  IN IF o.errored \/ o.writing # "none"
     THEN w
     ELSE IF o.buffer # <<>>
     THEN write([w EXCEPT !.calls[c].out.buffer = Tail(@)], c, Head(o.buffer))
     ELSE IF o.ending /\ o.final = "none"
     THEN final(w, c)
     ELSE w

\* Readable.push(message): push(null) ends the readable.  Its result, whether
\* the readable takes more, is the caller's `more`.
push(w, c, message) ==
  [w EXCEPT !.calls[c].inp.pushed = Append(@, message),
            !.calls[c].inp.reading = FALSE,
            !.calls[c].inp.ended = @ \/ message = EndOfStream,
            !.calls[c].inp.endedByWire =
               @ \/ (message = EndOfStream /\ w.calls[c].finalStatus = NoStatus)]

filterReceivedMessage(w, c, framedMessage) ==
  IF w.calls[c].finalStatus # NoStatus
  THEN w
  ELSE IF framedMessage = EndOfStream
  THEN IF w.calls[c].inp.canPush
       THEN push(w, c, EndOfStream)
       ELSE [w EXCEPT !.calls[c].inp.unpushedReadMessages = Append(@, EndOfStream)]
  ELSE [w EXCEPT !.calls[c].inp.isReadFilterPending = TRUE,
                 !.calls[c].inp.filtering = @ \cup {framedMessage}]

handleFilteredRead(w, c, message, more) ==
  IF w.calls[c].finalStatus # NoStatus
  THEN w
  ELSE LET w1 == [w EXCEPT !.calls[c].inp.isReadFilterPending = FALSE]
           w2 == IF w1.calls[c].inp.canPush
                 THEN IF more
                      THEN push(w1, c, message)
                      ELSE [push(w1, c, message) EXCEPT !.calls[c].inp.canPush = FALSE,
                                                        !.calls[c].inp.paused = TRUE]
                 ELSE [w1 EXCEPT !.calls[c].inp.unpushedReadMessages = Append(@, message)]
           unfiltered == w2.calls[c].inp.unfilteredReadMessages
       IN IF unfiltered # <<>>
          THEN filterReceivedMessage(
                 [w2 EXCEPT !.calls[c].inp.unfilteredReadMessages = Tail(@)],
                 c, Head(unfiltered))
          ELSE w2

tryPush_Unserialized(w, c, messageBytes) ==
  filterReceivedMessage(w, c, messageBytes)

tryPush(w, c, messageBytes) ==
  IF w.calls[c].inp.isReadFilterPending
  THEN [w EXCEPT !.calls[c].inp.unfilteredReadMessages = Append(@, messageBytes)]
  ELSE filterReceivedMessage(w, c, messageBytes)

\* stream.on('data'): the decoder yields the next n messages
RECURSIVE tryPushAll(_, _, _)
tryPushAll(w, c, n) ==
  IF n = 0
  THEN w
  ELSE LET m == w.calls[c].inp.received + 1
       IN tryPushAll(tryPush([w EXCEPT !.calls[c].inp.received = m], c, m), c, n - 1)

\* the while loop of _read, and http2Stream.resume() after it
RECURSIVE readLoop(_, _, _)
readLoop(w, c, more) ==
  LET unpushed == w.calls[c].inp.unpushedReadMessages
  IN IF unpushed = <<>>
     THEN [w EXCEPT !.calls[c].inp.paused = FALSE]
     ELSE LET nextMessage == Head(unpushed)
              w1 == push([w EXCEPT !.calls[c].inp.unpushedReadMessages = Tail(@)],
                         c, nextMessage)
          IN IF nextMessage = EndOfStream \/ ~more
             THEN [w1 EXCEPT !.calls[c].inp.canPush = FALSE]
             ELSE readLoop(w1, c, more)

\* Http2CallStream._read
read(w, c, more) ==
  IF w.calls[c].finalStatus # NoStatus
  THEN push(w, c, EndOfStream)
  ELSE LET w1 == [w EXCEPT !.calls[c].inp.canPush = TRUE]
       IN IF ~w1.calls[c].http2Stream
          THEN [w1 EXCEPT !.calls[c].inp.pendingRead = TRUE]
          ELSE readLoop(w1, c, more)

\* attachHttp2Stream, lines 290-298: flush what was written before
flushPending(w, c) ==
  LET w1 == IF w.calls[c].out.writing = "pending"
            THEN http2Write([w EXCEPT !.calls[c].out.flushed = TRUE], c)
            ELSE w
  IN IF w1.calls[c].out.final = "pending" THEN http2End(w1, c) ELSE w1

\* takes the call reference also for a call that has ended already
attachHttp2Stream_AlwaysRef(w, c) ==
  IF w.calls[c].finalStatus # NoStatus
  THEN callRef([w EXCEPT !.calls[c].stream = "open", !.calls[c].rstCode = "CANCEL",
                         !.calls[c].streamSession = w.sub.session])
  ELSE flushPending(
         callRef(addDisconnectListener(
           [w EXCEPT !.calls[c].inp.paused = ~w.calls[c].inp.pendingRead,
                     !.calls[c].http2Stream = TRUE,
                     !.calls[c].subchannel = TRUE,
                     !.calls[c].stream = "open",
                     !.calls[c].streamSession = w.sub.session], c)), c)

attachHttp2Stream(w, c) ==
  IF w.calls[c].finalStatus # NoStatus
  THEN [w EXCEPT !.calls[c].stream = "open", !.calls[c].rstCode = "CANCEL",
                 !.calls[c].streamSession = w.sub.session]
  ELSE flushPending(
         callRef(addDisconnectListener(
           [w EXCEPT !.calls[c].inp.paused = ~w.calls[c].inp.pendingRead,
                     !.calls[c].http2Stream = TRUE,
                     !.calls[c].subchannel = TRUE,
                     !.calls[c].stream = "open",
                     !.calls[c].streamSession = w.sub.session], c)), c)

\* Subchannel.startCallStream: session.request(headers), then attach
startCallStream(w, c) ==
  attachHttp2Stream([w EXCEPT !.calls[c].startState = w.sub.connectivityState], c)

(***************************************************************************)
(* The promise jobs and nextTick callbacks a task left behind, in order.   *)
(***************************************************************************)
RunJob(w, job) ==
  CASE job.k = "emitStatus" ->
         [w EXCEPT !.calls[job.c].statusEmitted = @ + 1]
    [] job.k = "trailersEnd" ->
         LET w1 == endCall(w, job.c, job.st)
         IN [w1 EXCEPT !.calls[job.c].trailers = "done",
                       !.calls[job.c].handlingTrailers = "resolved",
                       !.calls[job.c].trailersWaiters = <<>>,
                       !.mq = @ \o w1.calls[job.c].trailersWaiters]
    [] OTHER -> endCall(w, job.c, job.st)

RECURSIVE Drain(_)
Drain(w) ==
  IF w.mq = <<>>
  THEN w
  ELSE Drain(RunJob([w EXCEPT !.mq = Tail(@)], Head(w.mq)))

Commit(w) ==
  LET d == Drain(w)
  IN /\ d.ok
     /\ chan' = d.chan
     /\ rlb' = d.rlb
     /\ res' = d.res
     /\ sub' = d.sub
     /\ sess' = d.sess
     /\ calls' = d.calls
     /\ watch' = d.watch

(***************************************************************************)
(* DnsResolver (resolver-dns.js).  isIP: the target is an IP literal       *)
(* (ipResult !== null); immediates counts the setImmediate callbacks owed. *)
(***************************************************************************)
MaxImmediates == 2
MaxLookups == 2

\* What the resolver did in the running handler: calls of updateResolution,
\* lookups that settled and the calls of the listener, in order.
Ev(k, a, b, c) == [k |-> k, a |-> a, b |-> b, c |-> c]

Log(w, ev) == [w EXCEPT !.res.trace = Append(@, ev)]

\* lookups: the Promise.all of an address and a TXT lookup whose handlers
\* are owed
startResolution(w) ==
  IF w.res.isIP
  THEN [w EXCEPT !.res.immediates = @ + 1, !.ok = @ /\ w.res.immediates < MaxImmediates]
  ELSE [w EXCEPT !.res.pendingResultPromise = TRUE,
                 !.res.lookups = @ + 1, !.ok = @ /\ w.res.lookups < MaxLookups]

\* updateResolution without the test of pendingResultPromise
resolverUpdateResolution_Unguarded(w) ==
  startResolution(Log(w, Ev("updateResolution", w.res.pendingResultPromise, "", "")))

resolverUpdateResolution(w) ==
  LET w1 == Log(w, Ev("updateResolution", w.res.pendingResultPromise, "", ""))
  IN IF w1.res.pendingResultPromise THEN w1 ELSE startResolution(w1)

(***************************************************************************)
(* Service configs and load balancers.  A service config is its            *)
(* loadBalancingConfig list of policy names; a load balancer is an         *)
(* instance (id) of a registered policy (name).                            *)
(***************************************************************************)
MaxBalancers == 3

Config(kind, lb) == [kind |-> kind, lb |-> lb]
RoundRobinConfig == Config("config", <<"round_robin">>)
\* configs whose policies are not registered, or not all of them
UnknownPolicyConfig == Config("config", <<"grpclb", "xds">>)
MixedPolicyConfig == Config("config", <<"grpclb", "round_robin", "pick_first">>)
NullConfig == Config("null", <<>>)
UndefinedConfig == Config("undefined", <<>>)

DEFAULT_LOAD_BALANCER_NAME == "pick_first"

isLoadBalancerNameRegistered(name) == name \in {"pick_first", "round_robin"}

LB(id, name) == [id |-> id, name |-> name]
NoLB == LB(0, "null")

(***************************************************************************)
(* Channel (channel.js) and ResolvingLoadBalancer                          *)
(* (resolving-load-balancer.js).  A watcher's callback may call back into  *)
(* the channel, so the operators of the two classes are mutually           *)
(* recursive.                                                              *)
(***************************************************************************)
tryPick_IgnoreWaitForReady(w, c) ==
  LET pickResult == pick(w.chan.currentPicker)
      w1 == [w EXCEPT !.chan.pickLog =
                        Append(@, [c |-> c, type |-> pickResult.pickResultType,
                                   status |-> pickResult.status])]
  IN CASE pickResult.pickResultType = "COMPLETE" ->
            IF ~pickResult.subchannel
            THEN cancelWithStatus(w1, c, RequestDropped)
            ELSE [w1 EXCEPT !.calls[c].sendMetadataPending = TRUE,
                            !.calls[c].pickState = w1.sub.connectivityState]
       [] pickResult.pickResultType = "QUEUE" ->
            [w1 EXCEPT !.chan.pickQueue = Append(@, c)]
       [] OTHER ->
            cancelWithStatus(w1, c, pickResult.status)

tryPick(w, c) ==
  LET pickResult == pick(w.chan.currentPicker)
      w1 == [w EXCEPT !.chan.pickLog =
                        Append(@, [c |-> c, type |-> pickResult.pickResultType,
                                   status |-> pickResult.status])]
  IN CASE pickResult.pickResultType = "COMPLETE" ->
            IF ~pickResult.subchannel
            THEN cancelWithStatus(w1, c, RequestDropped)
            ELSE [w1 EXCEPT !.calls[c].sendMetadataPending = TRUE,
                            !.calls[c].pickState = w1.sub.connectivityState]
       [] pickResult.pickResultType = "QUEUE" ->
            [w1 EXCEPT !.chan.pickQueue = Append(@, c)]
       [] OTHER ->
            IF w1.calls[c].waitForReady
            THEN [w1 EXCEPT !.chan.pickQueue = Append(@, c)]
            ELSE cancelWithStatus(w1, c, pickResult.status)

RECURSIVE tryPickAll_Reversed(_, _, _)
tryPickAll_Reversed(w, queueCopy, i) ==
  IF i > Len(queueCopy)
  THEN w
  ELSE tryPickAll_Reversed(tryPick(w, queueCopy[Len(queueCopy) + 1 - i]), queueCopy, i + 1)

RECURSIVE tryPickAll(_, _, _)
tryPickAll(w, queueCopy, i) ==
  IF i > Len(queueCopy)
  THEN w
  ELSE tryPickAll(tryPick(w, queueCopy[i]), queueCopy, i + 1)

removeConnectivityStateWatcher(w, x) ==
  [w EXCEPT !.chan.connectivityStateWatchers = Splice(@, x)]

RECURSIVE chanUpdateState(_, _)
RECURSIVE runWatchers(_, _, _, _)
RECURSIVE watcherCallback(_, _)
RECURSIVE channelControlHelperUpdateState(_, _, _)
RECURSIVE rlbUpdateState(_, _, _)
RECURSIVE updateResolution(_)
RECURSIVE exitIdle(_)

\* ChannelImplementation.updateState
chanUpdateState(w, newState) ==
  LET w1 == [w EXCEPT !.chan.connectivityState = newState,
                      !.chan.updated = TRUE,
                      !.chan.repeated =
                         @ \/ (w.chan.updated /\ w.chan.connectivityState = newState)]
  IN runWatchers(w1, w1.chan.connectivityStateWatchers, 1, newState)

runWatchers(w, watchersCopy, i, newState) ==
  IF i > Len(watchersCopy)
  THEN w
  ELSE LET x == watchersCopy[i]
       IN IF newState # w.watch[x].currentState
          THEN LET w1 == watcherCallback(w, x)
               IN runWatchers(
                    removeConnectivityStateWatcher([w1 EXCEPT !.watch[x].timer = FALSE], x),
                    watchersCopy, i + 1, newState)
          ELSE runWatchers(w, watchersCopy, i + 1, newState)

\* watcherObject.callback(): the application's callback, which either returns
\* or asks the channel to connect (getConnectivityState(true)), as
\* Client.waitForReady does
watcherCallback(w, x) ==
  LET w1 == [w EXCEPT !.watch[x].called = @ + 1]
  IN IF w1.watch[x].cb = "tryToConnect" THEN exitIdle(w1) ELSE w1

\* channelControlHelper.updateState of the Channel
channelControlHelperUpdateState(w, connectivityState, picker) ==
  LET queueCopy == w.chan.pickQueue
      w1 == [w EXCEPT !.chan.currentPicker = picker, !.chan.pickQueue = <<>>,
                      !.chan.drains = @ + 1]
  IN chanUpdateState(tryPickAll(w1, queueCopy, 1), connectivityState)

\* What the resolving load balancer did in the running handler, in order,
\* kept when record is set: the resolution it was given, the policy it
\* chose, the balancers it created, updated, destroyed and switched to, the
\* reports of its policies and what it published.
RlbEv(k, a, b) == [k |-> k, a |-> a, b |-> b]

Note(w, ev) == IF w.rlb.record THEN [w EXCEPT !.rlb.log = Append(@, ev)] ELSE w

\* ResolvingLoadBalancer.updateState
rlbUpdateState(w, connectivityState, picker) ==
  channelControlHelperUpdateState(
    Note([w EXCEPT !.rlb.currentState = connectivityState],
         RlbEv("publish", connectivityState, picker)),
    connectivityState, picker)

updateResolution(w) ==
  LET w1 == resolverUpdateResolution(Note(w, RlbEv("updateResolution", "", "")))
  IN IF w1.rlb.innerLoadBalancer = NoLB \/ w1.rlb.innerBalancerState = IDLE
     THEN rlbUpdateState(w1, CONNECTING, QueuePicker)
     ELSE w1

exitIdle(w0) ==
  LET w == Note(w0, RlbEv("exitIdle", w0.rlb.currentState, ""))
  IN IF w.rlb.currentState = IDLE
     THEN LET w1 == IF w.rlb.backoffRunning
                    THEN [w EXCEPT !.rlb.continueResolving = TRUE]
                    ELSE updateResolution(w)
          IN rlbUpdateState(w1, CONNECTING, QueuePicker)
     ELSE w

\* loadBalancer.destroy()
destroyInner(w) ==
  IF w.rlb.innerLoadBalancer = NoLB THEN w
  ELSE Note([w EXCEPT !.rlb.innerLoadBalancer = NoLB],
            RlbEv("destroy", w.rlb.innerLoadBalancer, "inner"))

destroyPending(w) ==
  IF w.rlb.pendingReplacementLoadBalancer = NoLB THEN w
  ELSE Note([w EXCEPT !.rlb.pendingReplacementLoadBalancer = NoLB],
            RlbEv("destroy", w.rlb.pendingReplacementLoadBalancer, "pending"))

\* loadBalancer.updateAddressList(addressList, loadBalancingConfig)
updateAddressList(w, lb) == Note(w, RlbEv("updateAddressList", lb, ""))

\* load_balancer_1.createLoadBalancer(name, helper)
newLB(w, name) == LB(w.rlb.created + 1, name)

countLB(w) == [w EXCEPT !.rlb.created = @ + 1, !.ok = @ /\ w.rlb.created < MaxBalancers]

switchOverReplacementBalancer(w) ==
  rlbUpdateState(
    Note([Note(w, RlbEv("destroy", w.rlb.innerLoadBalancer, "inner"))
            EXCEPT !.rlb.innerLoadBalancer = w.rlb.pendingReplacementLoadBalancer,
                   !.rlb.pendingReplacementLoadBalancer = NoLB,
                   !.rlb.innerBalancerState = w.rlb.replacementBalancerState,
                   !.rlb.innerBalancerPicker = w.rlb.replacementBalancerPicker,
                   !.rlb.switched = TRUE],
         RlbEv("switchOver", w.rlb.pendingReplacementLoadBalancer, "")),
    w.rlb.replacementBalancerState, w.rlb.replacementBalancerPicker)

\* a variant that publishes the failure whatever the active policy's state
handleResolutionFailure_Always(w, error) ==
  [rlbUpdateState(Note(w, RlbEv("failure", error, "")),
                  TRANSIENT_FAILURE, UnavailablePicker(error))
     EXCEPT !.rlb.backoffRunning = TRUE]

\* ResolvingLoadBalancer.handleResolutionFailure
handleResolutionFailure(w, error) ==
  LET w0 == Note(w, RlbEv("failure", error, ""))
      w1 == IF w0.rlb.innerLoadBalancer = NoLB \/ w0.rlb.innerBalancerState = IDLE
            THEN rlbUpdateState(w0, TRANSIENT_FAILURE, UnavailablePicker(error))
            ELSE w0
  IN [w1 EXCEPT !.rlb.backoffRunning = TRUE]

\* the active policy's report handled without the switch-over
innerUpdateState_NoSwitchOver(w, connectivityState, reported) ==
  LET picker == IF connectivityState = IDLE THEN QueuePicker ELSE reported
      w1 == Note([w EXCEPT !.rlb.innerBalancerState = connectivityState,
                           !.rlb.innerBalancerPicker = picker],
                 RlbEv("innerReport", connectivityState, picker))
  IN rlbUpdateState(
       IF connectivityState = IDLE THEN destroyInner(w1) ELSE w1,
       connectivityState, picker)

\* innerChannelControlHelper.updateState
innerUpdateState(w, connectivityState, reported) ==
  LET picker == IF connectivityState = IDLE THEN QueuePicker ELSE reported
      w1 == Note([w EXCEPT !.rlb.innerBalancerState = connectivityState,
                           !.rlb.innerBalancerPicker = picker],
                 RlbEv("innerReport", connectivityState, picker))
  IN IF connectivityState # READY /\ w1.rlb.pendingReplacementLoadBalancer # NoLB
     THEN switchOverReplacementBalancer(w1)
     ELSE rlbUpdateState(
            IF connectivityState = IDLE THEN destroyInner(w1) ELSE w1,
            connectivityState, picker)

\* a variant that publishes what a pending replacement reports
replacementUpdateState_Published(w, connectivityState, reported) ==
  LET w1 == Note([w EXCEPT !.rlb.replacementBalancerState = connectivityState,
                           !.rlb.replacementBalancerPicker = reported,
                           !.rlb.pendingReported = TRUE],
                 RlbEv("replacementReport", connectivityState, reported))
  IN IF connectivityState = READY
     THEN switchOverReplacementBalancer(w1)
     ELSE rlbUpdateState(w1, connectivityState, reported)

\* replacementChannelControlHelper.updateState
replacementUpdateState(w, connectivityState, reported) ==
  LET picker == IF connectivityState = IDLE THEN QueuePicker ELSE reported
      w1 == Note([w EXCEPT !.rlb.replacementBalancerState = connectivityState,
                           !.rlb.replacementBalancerPicker = picker,
                           !.rlb.pendingReported = TRUE],
                 RlbEv("replacementReport", connectivityState, picker))
  IN IF connectivityState = READY
     THEN switchOverReplacementBalancer(w1)
     ELSE IF connectivityState = IDLE
     THEN destroyPending(w1)
     ELSE w1

\* requestReresolution of either helper, once past the guard of the inner one
reresolve(w) ==
  IF w.rlb.backoffRunning
  THEN [w EXCEPT !.rlb.continueResolving = TRUE]
  ELSE updateResolution(w)

innerRequestReresolution(w0) ==
  LET w == Note(w0, RlbEv("requestReresolution", "inner", ""))
  IN IF w.rlb.pendingReplacementLoadBalancer = NoLB THEN reresolve(w) ELSE w

replacementRequestReresolution(w) ==
  reresolve(Note(w, RlbEv("requestReresolution", "replacement", "")))

\* the callback given to the BackoffTimeout of the ResolvingLoadBalancer
backoffCallback(w) ==
  LET w0 == Note([w EXCEPT !.rlb.backoffRunning = FALSE],
                 RlbEv("backoffExpiry", w.rlb.continueResolving, ""))
  IN IF w0.rlb.continueResolving
     THEN [updateResolution(w0) EXCEPT !.rlb.continueResolving = FALSE]
     ELSE IF w0.rlb.innerLoadBalancer = NoLB
     THEN rlbUpdateState(w0, IDLE, QueuePicker)
     ELSE rlbUpdateState(w0, w0.rlb.innerBalancerState, w0.rlb.innerBalancerPicker)

\* ResolvingLoadBalancer.destroy
rlbDestroy(w) ==
  rlbUpdateState(destroyPending(destroyInner(w)), SHUTDOWN, UnavailablePicker(NoConnection))

\* a variant that takes the first entry whether registered or not
firstRegistered_FirstEntry(lbList, i) == lbList[1]

\* The first registered policy of the working config; "" when none is.
RECURSIVE firstRegistered(_, _)
firstRegistered(lbList, i) ==
  IF i > Len(lbList) THEN ""
  ELSE IF isLoadBalancerNameRegistered(lbList[i]) THEN lbList[i]
  ELSE firstRegistered(lbList, i + 1)

\* lines 167-184: hand the address list to the policy loadBalancerName
applyPolicy(w, loadBalancerName) ==
  IF w.rlb.innerLoadBalancer = NoLB
  THEN updateAddressList(
         Note(countLB([w EXCEPT !.rlb.innerLoadBalancer = newLB(w, loadBalancerName)]),
              RlbEv("create", newLB(w, loadBalancerName), "inner")),
         newLB(w, loadBalancerName))
  ELSE IF w.rlb.innerLoadBalancer.name = loadBalancerName
  THEN updateAddressList(w, w.rlb.innerLoadBalancer)
  ELSE IF w.rlb.pendingReplacementLoadBalancer = NoLB
          \/ w.rlb.pendingReplacementLoadBalancer.name # loadBalancerName
  THEN LET w1 == destroyPending(w)
       IN updateAddressList(
            Note(countLB([w1 EXCEPT !.rlb.pendingReplacementLoadBalancer =
                                       newLB(w, loadBalancerName),
                                    !.rlb.pendingReported = FALSE]),
                 RlbEv("create", newLB(w, loadBalancerName), "pending")),
            newLB(w, loadBalancerName))
  ELSE updateAddressList(w, w.rlb.pendingReplacementLoadBalancer)

\* a variant that falls back to the default service config whenever the
\* resolution has none
workingServiceConfig_DefaultOnError(w, serviceConfig, serviceConfigError) ==
  IF serviceConfig = NullConfig THEN w.rlb.defaultServiceConfig ELSE serviceConfig

\* lines 99-134: the service config the resolution is handled with
workingServiceConfig(w, serviceConfig, serviceConfigError) ==
  IF serviceConfig = NullConfig
  THEN IF serviceConfigError = NoStatus
       THEN w.rlb.defaultServiceConfig
       ELSE IF w.rlb.previousServiceConfig = UndefinedConfig
       THEN w.rlb.defaultServiceConfig
       ELSE w.rlb.previousServiceConfig
  ELSE serviceConfig

\* listener.onSuccessfulResolution of the ResolvingLoadBalancer
onSuccessfulResolution(w0, serviceConfig, serviceConfigError) ==
  LET w == Note(w0, RlbEv("resolution", serviceConfig, serviceConfigError))
      step4b == /\ serviceConfig = NullConfig
                /\ serviceConfigError # NoStatus
                /\ w.rlb.previousServiceConfig = UndefinedConfig
                /\ w.rlb.defaultServiceConfig = NullConfig
      w1 == IF serviceConfig = NullConfig
            THEN IF serviceConfigError = NoStatus
                 THEN [w EXCEPT !.rlb.previousServiceConfig = serviceConfig]
                 ELSE IF step4b
                 THEN handleResolutionFailure(w, serviceConfigError)
                 ELSE w
            ELSE [w EXCEPT !.rlb.previousServiceConfig = serviceConfig]
      working == workingServiceConfig(w, serviceConfig, serviceConfigError)
      loadBalancerName ==
        IF working.kind # "config" \/ working.lb = <<>>
        THEN DEFAULT_LOAD_BALANCER_NAME
        ELSE firstRegistered(working.lb, 1)
      w2 == Note(w1, RlbEv("policy", loadBalancerName, working))
  IN IF loadBalancerName = ""
     THEN handleResolutionFailure(w2,
            Status("UNAVAILABLE", "All load balancer options in service config are not compatible"))
     ELSE applyPolicy(w2, loadBalancerName)

onError(w, error) == handleResolutionFailure(w, error)

(***************************************************************************)
(* DnsResolver: the handlers of the lookups.  An address of the lookup is  *)
(* [family, address]; the listener gets [address, bracketed].              *)
(***************************************************************************)
Address(family, address) == [family |-> family, address |-> address]

Formatted(address, bracketed) == [address |-> address, bracketed |-> bracketed]

\* addressList.filter(addr => addr.family === family).map(format)
RECURSIVE ofFamily(_, _)
ofFamily(addressList, family) ==
  IF addressList = <<>> THEN <<>>
  ELSE IF Head(addressList).family = family
  THEN <<Formatted(Head(addressList).address, family = 6)>> \o ofFamily(Tail(addressList), family)
  ELSE ofFamily(Tail(addressList), family)

\* mergeArrays(ip4Addresses, ip6Addresses): one of each in turn
RECURSIVE mergeArrays(_, _)
mergeArrays(a, b) ==
  IF a = <<>> THEN b
  ELSE IF b = <<>> THEN a
  ELSE <<Head(a), Head(b)>> \o mergeArrays(Tail(a), Tail(b))

\* What the TXT lookup resolved with: an Error, records without a service
\* config, records with one that selects round_robin, records that do not
\* parse.
TxtRecords == {"error", "none", "round_robin", "invalid"}

\* extractAndSelectServiceConfig(txtRecord, percentage); of kind "throw" when
\* it throws
extractAndSelectServiceConfig(txtRecord) ==
  CASE txtRecord = "round_robin" -> RoundRobinConfig
    [] txtRecord = "invalid" -> Config("throw", <<>>)
    [] OTHER -> NullConfig

\* the listener's methods as the resolver calls them
listenerOnSuccessfulResolution(w, addressList, serviceConfig, serviceConfigError) ==
  onSuccessfulResolution(
    Log(w, Ev("onSuccessfulResolution", addressList, serviceConfig, serviceConfigError)),
    serviceConfig, serviceConfigError)

listenerOnError(w, error) == onError(Log(w, Ev("onError", error, "", "")), error)

\* the handler that reports a failed TXT lookup as a failed resolution
lookupFulfilled_TxtFails(w, addressList, txtRecord) ==
  LET w1 == Log([w EXCEPT !.res.pendingResultPromise = FALSE, !.res.lookups = @ - 1],
                Ev("settled", addressList, txtRecord, FALSE))
      allAddresses == mergeArrays(ofFamily(addressList, 4),
                                  IF w.res.ipv6 THEN ofFamily(addressList, 6) ELSE <<>>)
  IN IF allAddresses = <<>> \/ txtRecord = "error"
     THEN listenerOnError(w1, ResolutionFailed)
     ELSE listenerOnSuccessfulResolution(w1, allAddresses, NullConfig, NoStatus)

\* pendingResultPromise.then(([addressList, txtRecord]) => ...)
lookupFulfilled(w, addressList, txtRecord) ==
  LET w1 == Log([w EXCEPT !.res.pendingResultPromise = FALSE, !.res.lookups = @ - 1],
                Ev("settled", addressList, txtRecord, FALSE))
      ip4Addresses == ofFamily(addressList, 4)
      ip6Addresses == IF w.res.ipv6 THEN ofFamily(addressList, 6) ELSE <<>>
      allAddresses == mergeArrays(ip4Addresses, ip6Addresses)
      parsed == extractAndSelectServiceConfig(txtRecord)
  IN IF allAddresses = <<>>
     THEN listenerOnError(w1, ResolutionFailed)
     ELSE IF txtRecord = "error"
     THEN listenerOnSuccessfulResolution(w1, allAddresses, NullConfig, TxtFailed)
     ELSE IF parsed.kind = "throw"
     THEN listenerOnSuccessfulResolution(w1, allAddresses, NullConfig, ParsingFailed)
     ELSE listenerOnSuccessfulResolution(w1, allAddresses, parsed, NoStatus)

\* pendingResultPromise.then(..., err => ...): the address lookup rejected
lookupRejected(w) ==
  listenerOnError(
    Log([w EXCEPT !.res.pendingResultPromise = FALSE, !.res.lookups = @ - 1],
        Ev("settled", <<>>, "", TRUE)),
    ResolutionFailed)

\* the callback startResolution gives to setImmediate for an IP literal
immediateCallback(w) ==
  listenerOnSuccessfulResolution([w EXCEPT !.res.immediates = @ - 1],
                                 <<Formatted("ip", FALSE)>>, NullConfig, NoStatus)

(***************************************************************************)
(* Initial state: a channel just constructed (the ResolvingLoadBalancer's  *)
(* constructor has published IDLE with a QueuePicker), one subchannel the  *)
(* load balancer holds a reference to, no call created yet.                *)
(***************************************************************************)
InitChan ==
  [connectivityState |-> IDLE, currentPicker |-> QueuePicker, pickQueue |-> <<>>,
   connectivityStateWatchers |-> <<>>, closed |-> FALSE, pickLog |-> <<>>, drains |-> 0,
   updated |-> FALSE, repeated |-> FALSE]

InitRlb(defaultServiceConfig) ==
  [innerLoadBalancer |-> NoLB, pendingReplacementLoadBalancer |-> NoLB,
   currentState |-> IDLE, previousServiceConfig |-> UndefinedConfig,
   innerBalancerState |-> IDLE, innerBalancerPicker |-> UnavailablePicker(NoConnection),
   replacementBalancerState |-> IDLE,
   replacementBalancerPicker |-> UnavailablePicker(NoConnection),
   continueResolving |-> FALSE, backoffRunning |-> FALSE,
   defaultServiceConfig |-> defaultServiceConfig, created |-> 0, switched |-> FALSE,
   pendingReported |-> FALSE, record |-> FALSE, log |-> <<>>]

InitRes(isIP) ==
  [isIP |-> isIP, pendingResultPromise |-> FALSE, immediates |-> 0, lookups |-> 0,
   ipv6 |-> TRUE, trace |-> <<>>]

InitSub ==
  [connectivityState |-> IDLE, session |-> NoSession, continueConnecting |-> FALSE,
   disconnectListeners |-> <<>>, callRefcount |-> 0, refcount |-> 1,
   keepaliveInterval |-> FALSE, keepaliveTimeout |-> FALSE, staleTimeouts |-> 0,
   backoffRunning |-> FALSE, stateListeners |-> <<>>,
   keepaliveTimeMs |-> KEEPALIVE_MAX_TIME_MS,
   kinds |-> [x \in 1..MaxListeners |-> "observe"],
   seen |-> [x \in 1..MaxListeners |-> <<>>], log |-> <<>>, fired |-> "none",
   referenced |-> TRUE]

InitSession ==
  [st |-> "unused", closing |-> FALSE, socketClosed |-> FALSE,
   disconnectArmed |-> FALSE, goaway |-> FALSE, tooManyPings |-> FALSE, pings |-> 0]

\* The writable side of a call.  written: messages the application wrote (they
\* are numbered 1, 2, ...); buffer: those the Writable holds back while a
\* _write is outstanding; writing: where the message of the outstanding _write
\* is; final: where the end of writes is; wire: what http2Stream.write got;
\* flushed: attachHttp2Stream found a pending write.
InitOut ==
  [written |-> 0, buffer |-> <<>>, writing |-> "none", message |-> 0,
   ending |-> FALSE, final |-> "none", errored |-> FALSE,
   wire |-> <<>>, wireEnded |-> FALSE, acked |-> 0, flushed |-> FALSE]

\* The readable side of a call.  The messages on the wire are numbered 1, 2,
\* ... and 0 stands for the null that ends the readable; received: messages
\* decoded so far; filtering: those in the receiveMessage filters; pushed:
\* what push() got, in order; reading: _read was called and no push followed.
InitInp ==
  [received |-> 0, wireEnd |-> FALSE, unfilteredReadMessages |-> <<>>,
   isReadFilterPending |-> FALSE, filtering |-> {}, unpushedReadMessages |-> <<>>,
   canPush |-> FALSE, pendingRead |-> FALSE, paused |-> FALSE, reading |-> FALSE,
   pushed |-> <<>>, ended |-> FALSE, endedByWire |-> FALSE]

InitCall ==
  [created |-> FALSE, started |-> FALSE, waitForReady |-> FALSE,
   sendMetadataPending |-> FALSE, http2Stream |-> FALSE, subchannel |-> FALSE,
   stream |-> "none", rstCode |-> "none", streamSession |-> NoSession,
   response |-> FALSE, finalStatus |-> NoStatus, mappedStatusCode |-> "UNKNOWN",
   handlingHeaders |-> "resolved", handlingTrailers |-> "resolved",
   trailers |-> "none", trailersResult |-> NoStatus, trailersWaiters |-> <<>>,
   trailersFirst |-> FALSE, trailerStatus |-> NoStatus, startState |-> "none",
   sendMetadataResult |-> "none", pickState |-> "none", invoked |-> FALSE,
   cancels |-> 0, statusEmitted |-> 0, endCalls |-> 0, callUnrefs |-> 0,
   out |-> InitOut, inp |-> InitInp, hookFailed |-> "none", deferred |-> NoStatus,
   direct |-> NoStatus]

InitWatcher ==
  [registered |-> FALSE, currentState |-> IDLE, timer |-> FALSE, cb |-> "none",
   tick |-> FALSE, called |-> 0, failed |-> 0]

Init ==
  /\ chan = InitChan
  /\ rlb = InitRlb(Config("config", <<>>))
  /\ res = InitRes(FALSE)
  /\ sub = InitSub
  /\ sess = [s \in Sessions |-> InitSession]
  /\ calls = [c \in 1..MaxCalls |-> InitCall]
  /\ watch = [x \in 1..MaxWatchers |-> InitWatcher]

Calls == DOMAIN calls

(***************************************************************************)
(* Calls: the application's side.                                          *)
(***************************************************************************)
\* Channel.createCall: throws once the channel is SHUTDOWN
CreateCall(c) ==
  /\ ~calls[c].created
  /\ \A d \in Calls : d < c => calls[d].created
  /\ chan.connectivityState # SHUTDOWN
  /\ Commit([World EXCEPT !.calls[c].created = TRUE])

\* Http2CallStream.sendMetadata -> Channel._startCallStream -> tryPick
SendMetadata(c, waitForReady) ==
  /\ calls[c].created
  /\ ~calls[c].started
  /\ Commit(tryPick([World EXCEPT !.calls[c].started = TRUE,
                                  !.calls[c].waitForReady = waitForReady], c))

\* the application's cancel (CANCELLED) or the deadline timer (DEADLINE_EXCEEDED)
CancelStatuses == {UserCancel, DeadlineExceeded}

CancelWithStatus(c, status) ==
  /\ calls[c].created
  /\ calls[c].cancels < MaxCancels
  /\ Commit(cancelWithStatus([World EXCEPT !.calls[c].cancels = @ + 1], c, status))

SendMetadataDone_NoReadyCheck(c, fulfilled) ==
  /\ calls[c].sendMetadataPending
  /\ LET w == [World EXCEPT !.calls[c].sendMetadataPending = FALSE,
                            !.calls[c].sendMetadataResult =
                               IF fulfilled THEN "fulfilled" ELSE "rejected"]
     IN Commit(
          IF ~fulfilled
          THEN cancelWithStatus(w, c, PluginError)
          ELSE startCallStream(w, c))

\* filterStack.sendMetadata settles (lines 186-202)
SendMetadataDone(c, fulfilled) ==
  /\ calls[c].sendMetadataPending
  /\ LET w == [World EXCEPT !.calls[c].sendMetadataPending = FALSE,
                            !.calls[c].sendMetadataResult =
                               IF fulfilled THEN "fulfilled" ELSE "rejected"]
     IN Commit(
          IF ~fulfilled
          THEN cancelWithStatus(w, c, PluginError)
          ELSE IF w.sub.connectivityState = READY
          THEN IF w.sess[w.sub.session].socketClosed
               THEN cancelWithStatus(
                      [w EXCEPT !.calls[c].startState = w.sub.connectivityState],
                      c, FailedToStart)
               ELSE startCallStream(w, c)
          ELSE cancelWithStatus(w, c, DroppedWhileStarting))

(***************************************************************************)
(* The HTTP/2 stream of a call: 'response', 'trailers', 'close', and the   *)
(* completions of the receiveMetadata and receiveTrailers filters.         *)
(***************************************************************************)
StreamLive(c) ==
  /\ calls[c].http2Stream
  /\ calls[c].stream = "open"
  /\ ~sess[calls[c].streamSession].socketClosed

SomeHttpStatuses == {200, 404}

\* stream.on('response'): headers with or without END_STREAM, whose parse
\* (Metadata.fromHttp2Headers) succeeds or throws
StreamResponse(c, httpStatus, endStream, parses) ==
  /\ StreamLive(c)
  /\ ~calls[c].response
  /\ LET w == [World EXCEPT !.calls[c].response = TRUE,
                            !.calls[c].mappedStatusCode = MappedStatusCode(httpStatus)]
     IN Commit(
          IF endStream
          THEN handleTrailers(w, c)
          ELSE IF ~parses
          THEN endCall(w, c, HeaderError)
          ELSE [w EXCEPT !.calls[c].handlingHeaders = "pending"])

\* filterStack.receiveMetadata settles (lines 227-237); handlingHeaders is
\* then resolved, and a handleTrailers waiting for it goes on
ReceiveMetadataDone(c, fulfilled) ==
  /\ calls[c].handlingHeaders = "pending"
  /\ LET w == IF fulfilled THEN World
              ELSE endCall(destroyHttp2Stream(hookFails(World, c, "receiveMetadata"), c),
                           c, HeaderError)
         w1 == [w EXCEPT !.calls[c].handlingHeaders = "resolved"]
     IN Commit(
          IF w1.calls[c].trailers = "headers"
          THEN Enqueue([w1 EXCEPT !.calls[c].trailers = "ending"],
                       Job("trailersEnd", c, w1.calls[c].trailersResult))
          ELSE w1)

\* stream.on('trailers')
StreamTrailers(c) ==
  /\ StreamLive(c)
  /\ calls[c].response
  /\ calls[c].trailers = "none"
  /\ Commit(handleTrailers(World, c))

\* What filterStack.receiveTrailers makes of {code: mappedStatusCode}: the
\* status of the grpc-status trailer, the status unchanged, or a rejection.
TrailerOutcomes == {"grpc-status", "unchanged", "rejected"}

TrailerStatus(call, outcome) ==
  CASE outcome = "grpc-status" -> Status("OK", "grpc-message")
    [] outcome = "unchanged" -> Status(call.mappedStatusCode, "")
    [] OTHER -> FailedTrailers

ReceiveTrailersDone(c, outcome) ==
  /\ calls[c].trailers = "filter"
  /\ LET st == TrailerStatus(calls[c], outcome)
         w == IF outcome = "rejected" THEN hookFails(World, c, "receiveTrailers") ELSE World
     IN Commit(awaitHandlingHeaders([w EXCEPT !.calls[c].trailerStatus = st], c, st))

\* stream.on('close'): rstCode is the code of our own close(), else the peer's
SomeRstCodes == {"REFUSED_STREAM"}

StreamClose(c, rstCode) ==
  /\ calls[c].stream = "open"
  /\ calls[c].rstCode \in {"none", rstCode}
  /\ LET w == [World EXCEPT !.calls[c].stream = "closed", !.calls[c].rstCode = rstCode]
     IN Commit(
          IF w.calls[c].http2Stream
          THEN awaitHandlingTrailers(w, Job("closeEnd", c, RstStatus(rstCode)))
          ELSE w)

(***************************************************************************)
(* The subchannel's side: its load balancer, its HTTP/2 sessions, timers.  *)
(***************************************************************************)
\* the load balancer asks the subchannel to connect
StartConnecting ==
  /\ sub.connectivityState \in {IDLE, TRANSIENT_FAILURE}
  /\ sub.connectivityState = TRANSIENT_FAILURE => ~sub.continueConnecting
  /\ Commit(startConnecting(World))

\* session.once('connect')
SessionConnect(s) ==
  /\ sess[s].st = "connecting"
  /\ ~sess[s].closing
  /\ LET w == [World EXCEPT !.sess[s].st = "connected"]
     IN Commit(IF w.sub.session = s THEN transitionToState(w, {CONNECTING}, READY) ELSE w)

\* Live iteration of `for (const listener of this.disconnectListeners)`:
\* a listener that removes itself shifts the rest of the array down.
RECURSIVE runDisconnectListeners(_, _)
runDisconnectListeners(w, i) ==
  IF i > Len(w.sub.disconnectListeners)
  THEN w
  ELSE runDisconnectListeners(disconnectListener(w, w.sub.disconnectListeners[i]), i + 1)

\* session.socket.once('close'), armed by the transition to READY
SocketClose(s) ==
  /\ sess[s].st = "connected"
  /\ ~sess[s].socketClosed
  /\ LET w == [World EXCEPT !.sess[s].socketClosed = TRUE]
     IN Commit(IF w.sess[s].disconnectArmed THEN runDisconnectListeners(w, 1) ELSE w)

\* session.once('close'): after the socket's close, or of a session that
\* never connected
SessionClose(s) ==
  /\ \/ sess[s].st = "connecting"
     \/ sess[s].st = "connected" /\ sess[s].socketClosed
  /\ LET w == [World EXCEPT !.sess[s].st = "closed"]
     IN Commit(
          IF w.sub.session = s
          THEN transitionToState(
                 transitionToState(w, {CONNECTING}, TRANSIENT_FAILURE), {READY}, IDLE)
          ELSE w)

\* What a GOAWAY frame carries: its error code and its opaque data.
SomeGoaways ==
  {<<"NO_ERROR", "">>, <<"ENHANCE_YOUR_CALM", "">>, <<"ENHANCE_YOUR_CALM", "too_many_pings">>}

\* Math.min(2 * keepaliveTimeMs, KEEPALIVE_MAX_TIME_MS); the numbers of the
\* code are doubles, for which 2 * keepaliveTimeMs is exact
doubleKeepaliveTime(w) ==
  [w EXCEPT !.sub.keepaliveTimeMs =
     IF @ > KEEPALIVE_MAX_TIME_MS \div 2 THEN KEEPALIVE_MAX_TIME_MS ELSE 2 * @]

\* the handler that takes every ENHANCE_YOUR_CALM for excess pings
goaway_AnyCalm(w, s, errorCode, opaqueData) ==
  IF w.sub.session = s
  THEN transitionToState(
         IF errorCode = "ENHANCE_YOUR_CALM" THEN doubleKeepaliveTime(w) ELSE w,
         {CONNECTING, READY}, IDLE)
  ELSE w

\* the handler of session.once('goaway')
goaway(w, s, errorCode, opaqueData) ==
  IF w.sub.session = s
  THEN transitionToState(
         IF errorCode = "ENHANCE_YOUR_CALM" /\ opaqueData = "too_many_pings"
         THEN doubleKeepaliveTime(w)
         ELSE w,
         {CONNECTING, READY}, IDLE)
  ELSE w

\* session.once('goaway'); tooManyPings: what the frame was
SessionGoaway(s, errorCode, opaqueData) ==
  /\ sess[s].st = "connected"
  /\ ~sess[s].socketClosed
  /\ ~sess[s].goaway
  /\ <<errorCode, opaqueData>> \in SomeGoaways
  /\ LET w == [World EXCEPT !.sess[s].goaway = TRUE,
                            !.sess[s].tooManyPings =
                               (errorCode = "ENHANCE_YOUR_CALM" /\ opaqueData = "too_many_pings")]
     IN Commit(goaway(w, s, errorCode, opaqueData))

\* the callback given to the BackoffTimeout of the subchannel
BackoffExpiry ==
  /\ sub.backoffRunning
  /\ LET w == [World EXCEPT !.sub.backoffRunning = FALSE, !.sub.fired = "backoff"]
     IN Commit(
          IF w.sub.continueConnecting
          THEN transitionToState(w, {TRANSIENT_FAILURE, CONNECTING}, CONNECTING)
          ELSE transitionToState(w, {TRANSIENT_FAILURE, CONNECTING}, IDLE))

\* the timer of sendPing fires before the ping's callback ran
KeepaliveTimeout ==
  /\ sub.keepaliveTimeout
  /\ Commit(transitionToState([World EXCEPT !.sub.keepaliveTimeout = FALSE,
                                             !.sub.fired = "current"],
                               {READY}, IDLE))

\* the callback of session.ping: clearTimeout(this.keepaliveTimeoutId)
PingCallback(s) ==
  /\ sess[s].pings > 0
  /\ Commit([World EXCEPT !.sess[s].pings = @ - 1, !.sub.keepaliveTimeout = FALSE])

\* the callback of setInterval in startKeepalivePings: sendPing()
KeepaliveInterval ==
  /\ sub.keepaliveInterval
  /\ Commit(sendPing(World))

\* a timer of an earlier sendPing, whose id was overwritten by a later
\* sendPing and which no clearTimeout can reach any more, fires
OrphanedKeepaliveTimeout ==
  /\ sub.staleTimeouts > 0
  /\ Commit(transitionToState([World EXCEPT !.sub.staleTimeouts = @ - 1,
                                             !.sub.fired = "orphaned"],
                               {READY}, IDLE))

(***************************************************************************)
(* The channel's side: picker updates from the load balancing policy.      *)
(***************************************************************************)
\* channelControlHelper.updateState(connectivityState, picker), as the
\* resolving load balancer calls it for the active policy; a policy publishes
\* a picker that completes with the subchannel while the subchannel is READY
Published ==
  {<<IDLE, QueuePicker>>, <<CONNECTING, QueuePicker>>, <<READY, CompletePicker>>,
   <<READY, DropPicker>>, <<TRANSIENT_FAILURE, UnavailablePicker(NoConnection)>>}

UpdateState(connectivityState, picker) ==
  /\ <<connectivityState, picker>> \in Published
  /\ chan.currentPicker # picker \/ chan.connectivityState # connectivityState
  /\ picker = CompletePicker => sub.connectivityState = READY
  /\ Commit(channelControlHelperUpdateState(World, connectivityState, picker))

(***************************************************************************)
(* Calls on one channel with one subchannel.                               *)
(***************************************************************************)
CallNext(c) ==
  \/ CreateCall(c)
  \/ \E waitForReady \in BOOLEAN : SendMetadata(c, waitForReady)
  \/ \E status \in CancelStatuses : CancelWithStatus(c, status)
  \/ \E fulfilled \in BOOLEAN : SendMetadataDone(c, fulfilled)
  \/ \E httpStatus \in SomeHttpStatuses, endStream, parses \in BOOLEAN :
       StreamResponse(c, httpStatus, endStream, parses)
  \/ \E fulfilled \in BOOLEAN : ReceiveMetadataDone(c, fulfilled)
  \/ StreamTrailers(c)
  \/ \E outcome \in TrailerOutcomes : ReceiveTrailersDone(c, outcome)
  \/ \E rstCode \in SomeRstCodes \cup {"CANCEL"} : StreamClose(c, rstCode)

SubchannelNext ==
  \/ StartConnecting
  \/ \E s \in Sessions : SessionConnect(s)
  \/ \E s \in Sessions : SocketClose(s)
  \/ \E s \in Sessions : SessionClose(s)
  \/ \E s \in Sessions, g \in SomeGoaways : SessionGoaway(s, g[1], g[2])
  \/ BackoffExpiry
  \/ KeepaliveTimeout
  \/ \E s \in Sessions : PingCallback(s)

Next ==
  \/ \E c \in Calls : CallNext(c)
  \/ SubchannelNext
  \/ \E p \in Published : UpdateState(p[1], p[2])

Spec == Init /\ [][Next]_vars

(***************************************************************************)
(* Properties.                                                             *)
(***************************************************************************)
Ended(c) == calls[c].finalStatus # NoStatus

C2_EndCallIdempotent ==
  [][\A c \in Calls :
       /\ Ended(c) =>
            /\ calls'[c].finalStatus = calls[c].finalStatus
            /\ calls'[c].statusEmitted = calls[c].statusEmitted
            /\ calls'[c].callUnrefs = calls[c].callUnrefs
       /\ calls'[c].endCalls <= 1
       /\ calls'[c].statusEmitted <= 1
       /\ calls'[c].callUnrefs <= 1]_vars

\* endCall was invoked again on an attached call that had ended, whose status
\* was emitted once and whose call reference was released once
C2_Witness ==
  \E c \in Calls :
    /\ calls[c].invoked
    /\ calls[c].subchannel
    /\ calls[c].endCalls = 1
    /\ calls[c].statusEmitted = 1
    /\ calls[c].callUnrefs = 1

\* C5: startCallStream is invoked only on a subchannel that is READY; when the
\* outgoing-metadata filters complete and the picked subchannel is not READY
\* any more, no HTTP/2 stream is opened and the call ends with UNAVAILABLE
\* 'Connection dropped while starting call' (unless it had ended before).
C5_StartOnlyWhenReady ==
  \A c \in Calls :
    /\ calls[c].startState \in {"none", READY}
    /\ (calls[c].sendMetadataResult = "fulfilled" /\ calls[c].startState = "none") =>
         /\ ~calls[c].http2Stream
         /\ calls[c].stream = "none"
         /\ calls[c].finalStatus \in {DroppedWhileStarting} \cup CancelStatuses
         /\ calls[c].finalStatus \in CancelStatuses => calls[c].cancels > 0

\* the filters completed after the picked subchannel had left READY
C5_Witness ==
  \E c \in Calls :
    /\ calls[c].pickState = READY
    /\ calls[c].sendMetadataResult = "fulfilled"
    /\ calls[c].startState = "none"
    /\ calls[c].finalStatus = DroppedWhileStarting
    /\ sub.connectivityState # READY

PairInit ==
  /\ chan = InitChan
  /\ rlb = InitRlb(Config("config", <<>>))
  /\ res = InitRes(FALSE)
  /\ sub = InitSub
  /\ sess = [s \in Sessions |-> InitSession]
  /\ calls = [c \in 1..MaxAttached |-> InitCall]
  /\ watch = [x \in 1..MaxWatchers |-> InitWatcher]

PairCallNext(c) ==
  \/ CreateCall(c)
  \/ \E waitForReady \in BOOLEAN : SendMetadata(c, waitForReady)
  \/ \E fulfilled \in BOOLEAN : SendMetadataDone(c, fulfilled)
  \/ \E rstCode \in SomeRstCodes \cup {"CANCEL"} : StreamClose(c, rstCode)

PairNext ==
  \/ \E c \in Calls : PairCallNext(c)
  \/ SubchannelNext
  \/ \E p \in Published : UpdateState(p[1], p[2])

PairSpec == PairInit /\ [][PairNext]_vars

\* C10: when a READY subchannel is disconnected, every call attached to it
\* that has no final status yet ends with UNAVAILABLE 'Connection dropped':
\* once the socket's 'close' has been handled, no call attached through that
\* session is left without a final status.
C10_AllAttachedCallsDropped ==
  \A c \in Calls :
    (/\ calls[c].subchannel
     /\ sess[calls[c].streamSession].disconnectArmed
     /\ sess[calls[c].streamSession].socketClosed) =>
      Ended(c)

(***************************************************************************)
(* The channel's API, the resolver's outcomes and the load balancing       *)
(* policies' reports.                                                      *)
(***************************************************************************)
\* Channel.close
Close ==
  /\ ~chan.closed
  /\ Commit(chanUpdateState([rlbDestroy(World) EXCEPT !.chan.closed = TRUE], SHUTDOWN))

\* Channel.getConnectivityState(true)
GetConnectivityState ==
  /\ rlb.currentState = IDLE
  /\ Commit(exitIdle(World))

\* Channel.watchConnectivityState(currentState, deadline, callback)
WatchCallbacks == {"none", "tryToConnect"}

SomeWatchedStates == {IDLE, READY}

WatchConnectivityState(x, currentState, deadlinePassed, cb) ==
  /\ ~watch[x].registered
  /\ \A y \in DOMAIN watch : y < x => watch[y].registered
  /\ LET w == [World EXCEPT !.watch[x].registered = TRUE,
                            !.watch[x].currentState = currentState,
                            !.watch[x].cb = cb]
     IN Commit(
          IF deadlinePassed
          THEN [w EXCEPT !.watch[x].tick = TRUE]
          ELSE [w EXCEPT !.watch[x].timer = TRUE,
                         !.chan.connectivityStateWatchers = Append(@, x)])

\* process.nextTick(callback, new Error(...)) of a deadline already passed
WatcherTick(x) ==
  /\ watch[x].tick
  /\ Commit([World EXCEPT !.watch[x].tick = FALSE, !.watch[x].failed = @ + 1])

\* the watcher's timer: remove the watcher, callback(new Error(...))
WatcherTimeout(x) ==
  /\ watch[x].timer
  /\ Commit([removeConnectivityStateWatcher(World, x)
               EXCEPT !.watch[x].timer = FALSE, !.watch[x].failed = @ + 1])

\* The DNS lookups settle: addresses found (with the service config of the
\* TXT record, none, or an error for it), or no address
SomeConfigs == {NullConfig, RoundRobinConfig}

\* with configs whose policies are not all registered
MoreConfigs == SomeConfigs \cup {UnknownPolicyConfig, MixedPolicyConfig}

ResolveSuccess(serviceConfig, serviceConfigError) ==
  /\ res.lookups > 0
  /\ serviceConfigError # NoStatus => serviceConfig = NullConfig
  /\ Commit(onSuccessfulResolution(
              [World EXCEPT !.res.pendingResultPromise = FALSE, !.res.lookups = @ - 1],
              serviceConfig, serviceConfigError))

ResolveError ==
  /\ res.lookups > 0
  /\ Commit(onError([World EXCEPT !.res.pendingResultPromise = FALSE, !.res.lookups = @ - 1],
                    ResolutionFailed))

\* the callback of the resolving load balancer's BackoffTimeout
RlbBackoffExpiry ==
  /\ rlb.backoffRunning
  /\ Commit(backoffCallback(World))

\* What a policy reports through its ChannelControlHelper.
Reports ==
  {<<IDLE, QueuePicker>>, <<CONNECTING, QueuePicker>>, <<READY, CompletePicker>>,
   <<TRANSIENT_FAILURE, UnavailablePicker(NoConnection)>>}

InnerReport(connectivityState, picker) ==
  /\ rlb.innerLoadBalancer # NoLB
  /\ <<connectivityState, picker>> \in Reports
  /\ rlb.innerBalancerState # connectivityState
  /\ Commit(innerUpdateState(World, connectivityState, picker))

ReplacementReport(connectivityState, picker) ==
  /\ rlb.pendingReplacementLoadBalancer # NoLB
  /\ <<connectivityState, picker>> \in Reports
  /\ Commit(replacementUpdateState(World, connectivityState, picker))

InnerRequestReresolution ==
  /\ rlb.innerLoadBalancer # NoLB
  /\ Commit(innerRequestReresolution(World))

ReplacementRequestReresolution ==
  /\ rlb.pendingReplacementLoadBalancer # NoLB
  /\ Commit(replacementRequestReresolution(World))

(***************************************************************************)
(* A channel with its resolving load balancer; its subchannel, shared      *)
(* through the global pool, is connected already.                          *)
(***************************************************************************)
ReadySub ==
  [InitSub EXCEPT !.connectivityState = READY, !.session = 1]

ReadySession ==
  [InitSession EXCEPT !.st = "connected", !.disconnectArmed = TRUE]

ChanInit ==
  /\ chan = InitChan
  /\ rlb = InitRlb(Config("config", <<>>))
  /\ res = InitRes(FALSE)
  /\ sub = ReadySub
  /\ sess = [s \in Sessions |-> IF s = 1 THEN ReadySession ELSE InitSession]
  /\ calls = [c \in 1..MaxQueued |-> InitCall]
  /\ watch = [x \in 1..MaxWatchers |-> InitWatcher]

ChanCallNext(c) ==
  \/ CreateCall(c)
  \/ \E waitForReady \in BOOLEAN : SendMetadata(c, waitForReady)
  \/ SendMetadataDone(c, TRUE)

WatchNext(x) ==
  \/ \E currentState \in SomeWatchedStates, deadlinePassed \in BOOLEAN, cb \in WatchCallbacks :
       WatchConnectivityState(x, currentState, deadlinePassed, cb)
  \/ WatcherTick(x)
  \/ WatcherTimeout(x)

ChanResolverNext ==
  \/ ResolveSuccess(NullConfig, NoStatus)
  \/ ResolveError

ChanBalancerNext ==
  \/ RlbBackoffExpiry
  \/ \E r \in Reports : InnerReport(r[1], r[2])
  \/ InnerRequestReresolution

ChanNext ==
  \/ \E c \in Calls : ChanCallNext(c)
  \/ \E x \in DOMAIN watch : WatchNext(x)
  \/ Close
  \/ GetConnectivityState
  \/ ChanResolverNext
  \/ ChanBalancerNext

ChanSpec == ChanInit /\ [][ChanNext]_vars

(***************************************************************************)
(* The resolving load balancer alone, under every resolver outcome and     *)
(* with a replacement policy pending.                                      *)
(***************************************************************************)
ResolverNext ==
  \/ \E serviceConfig \in MoreConfigs, serviceConfigError \in {NoStatus, TxtFailed} :
       ResolveSuccess(serviceConfig, serviceConfigError)
  \/ ResolveError

BalancerNext ==
  \/ RlbBackoffExpiry
  \/ \E r \in Reports : InnerReport(r[1], r[2])
  \/ \E r \in Reports : ReplacementReport(r[1], r[2])
  \/ InnerRequestReresolution
  \/ ReplacementRequestReresolution

RlbNext ==
  \/ Close
  \/ GetConnectivityState
  \/ ResolverNext
  \/ BalancerNext

\* the service configs a channel is given as its default: none, one without
\* policies, one that selects round_robin
SomeDefaultConfigs == {NullConfig, Config("config", <<>>), RoundRobinConfig}

RlbInit ==
  /\ chan = InitChan
  /\ \E defaultServiceConfig \in SomeDefaultConfigs :
       rlb = [InitRlb(defaultServiceConfig) EXCEPT !.record = TRUE]
  /\ res = InitRes(FALSE)
  /\ sub = ReadySub
  /\ sess = [s \in Sessions |-> IF s = 1 THEN ReadySession ELSE InitSession]
  /\ calls = [c \in 1..MaxQueued |-> InitCall]
  /\ watch = [x \in 1..MaxWatchers |-> InitWatcher]

RlbSpec == RlbInit /\ [][RlbNext]_vars

Callers(log) == [i \in 1..Len(log) |-> log[i].c]

IsPrefix(s, t) == Len(s) <= Len(t) /\ SubSeq(t, 1, Len(s)) = s

Pos(s, e) == IF \E i \in 1..Len(s) : s[i] = e
             THEN CHOOSE i \in 1..Len(s) : s[i] = e
             ELSE 0

Queued(c) == \E i \in 1..Len(chan.pickQueue) : chan.pickQueue[i] = c

\* C3: SHUTDOWN is terminal: once close() has run, the channel's connectivity
\* state is SHUTDOWN and stays SHUTDOWN.
C3_ShutdownTerminal ==
  chan.closed => chan.connectivityState = SHUTDOWN

\* C4: close() cancels every queued pick: every call that is in the pick queue
\* when close() runs, waitForReady or not, has a final status when close()
\* returns.
C4_CloseCancelsQueuedPicks ==
  [][(~chan.closed /\ chan'.closed) =>
       \A c \in Calls : Queued(c) => calls'[c].finalStatus # NoStatus]_vars

\* C6: a pick that yields TRANSIENT_FAILURE fails a call that is not
\* waitForReady immediately with the status the picker carries (the call leaves
\* the queue and is not picked again in that step); a waitForReady call is
\* queued instead, its final status untouched, and stays in the queue until a
\* later picker completes it.
C6_TransientFailurePick ==
  [][\A i \in 1..Len(chan'.pickLog) :
       LET e == chan'.pickLog[i]
           last == \A j \in (i + 1)..Len(chan'.pickLog) : chan'.pickLog[j].c # e.c
           queued == \E j \in 1..Len(chan'.pickQueue) : chan'.pickQueue[j] = e.c
       IN e.type = "TRANSIENT_FAILURE" =>
            IF calls'[e.c].waitForReady
            THEN /\ calls'[e.c].finalStatus = calls[e.c].finalStatus
                 /\ last => queued
            ELSE /\ last
                 /\ ~queued
                 /\ calls'[e.c].finalStatus # NoStatus
                 /\ calls[e.c].finalStatus = NoStatus => calls'[e.c].finalStatus = e.status]_vars

\* one update re-picked a queue of a waitForReady call, which stayed queued,
\* and a call that is not, which failed with the picker's status
C6_Witness ==
  \E i, j \in 1..Len(chan.pickLog) :
    /\ chan.drains = 1
    /\ chan.pickLog[i].type = "TRANSIENT_FAILURE"
    /\ chan.pickLog[j].type = "TRANSIENT_FAILURE"
    /\ calls[chan.pickLog[i].c].waitForReady
    /\ Queued(chan.pickLog[i].c)
    /\ calls[chan.pickLog[i].c].finalStatus = NoStatus
    /\ ~calls[chan.pickLog[j].c].waitForReady
    /\ ~Queued(chan.pickLog[j].c)
    /\ calls[chan.pickLog[j].c].finalStatus = chan.pickLog[j].status

\* C7: the callback of watchConnectivityState is invoked exactly once: no
\* callback is ever invoked a second time, with or without an error.
C7_CallbackOnce ==
  \A x \in DOMAIN watch : watch[x].called + watch[x].failed <= 1

\* C8: when a picker is published, the calls of the pick queue are re-picked
\* in the order they were queued; those the picker queues again keep their
\* order, and no call is re-picked twice by one drain.
C8_FifoRepick ==
  [][chan'.drains >= 1 =>
       /\ IsPrefix(chan.pickQueue, Callers(chan'.pickLog))
       /\ \A i, j \in 1..Len(chan'.pickQueue) :
            i < j => /\ Pos(chan.pickQueue, chan'.pickQueue[i]) > 0
                     /\ Pos(chan.pickQueue, chan'.pickQueue[i])
                          < Pos(chan.pickQueue, chan'.pickQueue[j])
       /\ chan'.drains = 1 => Len(chan'.pickLog) = Len(chan.pickQueue)]_vars

\* a picker update has re-picked two queued calls and queued both again
C8_Witness ==
  /\ chan.drains = 1
  /\ Len(chan.pickLog) = 2
  /\ chan.pickLog[1].c # chan.pickLog[2].c
  /\ chan.pickQueue = Callers(chan.pickLog)
  /\ chan.currentPicker = UnavailablePicker(NoConnection)

(***************************************************************************)
(* The messages of one call.  The channel has a READY policy, whose picker *)
(* completes every pick with the connected subchannel.                     *)
(***************************************************************************)
\* Writable.write(message): _write at once, or buffered behind the _write
\* that is outstanding
AppWrite(c) ==
  /\ calls[c].created
  /\ ~calls[c].out.ending
  /\ ~calls[c].out.errored
  /\ calls[c].out.written < MaxMessages
  /\ LET m == calls[c].out.written + 1
         w == [World EXCEPT !.calls[c].out.written = m,
                            !.calls[c].out.buffer = Append(@, m)]
     IN Commit(writableNext(w, c))

\* Writable.end()
AppEnd(c) ==
  /\ calls[c].created
  /\ ~calls[c].out.ending
  /\ ~calls[c].out.errored
  /\ Commit(writableNext([World EXCEPT !.calls[c].out.ending = TRUE], c))

\* filterStack.sendMessage settles (lines 370-378)
SendMessageDone(c, fulfilled) ==
  /\ calls[c].out.writing = "filter"
  /\ Commit(IF fulfilled
            THEN writeFiltered(World, c)
            ELSE cancelWithStatus(
                   [hookFails(World, c, "sendMessage") EXCEPT !.calls[c].out.writing = "failed"],
                   c, FilterError))

\* the callback of http2Stream.write: the Writable goes on
WriteCallback(c) ==
  /\ calls[c].out.writing = "stream"
  /\ Commit(writableNext([World EXCEPT !.calls[c].out.writing = "none",
                                       !.calls[c].out.acked = @ + 1], c))

ReadyChan ==
  [InitChan EXCEPT !.connectivityState = READY, !.currentPicker = CompletePicker,
                   !.updated = TRUE]

ReadyRlb ==
  [InitRlb(Config("config", <<>>))
     EXCEPT !.innerLoadBalancer = LB(1, DEFAULT_LOAD_BALANCER_NAME),
            !.currentState = READY, !.innerBalancerState = READY,
            !.innerBalancerPicker = CompletePicker,
            !.previousServiceConfig = NullConfig, !.created = 1]

MsgInit ==
  /\ chan = ReadyChan
  /\ rlb = ReadyRlb
  /\ res = InitRes(FALSE)
  /\ sub = ReadySub
  /\ sess = [s \in Sessions |-> IF s = 1 THEN ReadySession ELSE InitSession]
  /\ calls = [c \in 1..MaxCalls |-> InitCall]
  /\ watch = [x \in 1..MaxWatchers |-> InitWatcher]

WriteNext ==
  \E c \in Calls :
    \/ CreateCall(c)
    \/ SendMetadata(c, FALSE)
    \/ SendMetadataDone(c, TRUE)
    \/ AppWrite(c)
    \/ AppEnd(c)
    \/ \E fulfilled \in BOOLEAN : SendMessageDone(c, fulfilled)
    \/ WriteCallback(c)
    \/ \E status \in CancelStatuses : CancelWithStatus(c, status)
    \/ \E rstCode \in SomeRstCodes \cup {"CANCEL"} : StreamClose(c, rstCode)

WriteSpec == MsgInit /\ [][WriteNext]_vars

Upto(n) == [i \in 1..n |-> i]

\* C11: the messages handed to the HTTP/2 stream of a call are the messages
\* the application wrote, in its order, none missing before another and none
\* twice; a message whose write was acknowledged is on the stream; what was
\* written (and the end of writes) before the stream was attached does not
\* stay behind once it is attached; the stream is ended only after every
\* message written.
C11_OutboundInOrder ==
  \A c \in Calls :
    LET o == calls[c].out
    IN /\ o.wire = Upto(Len(o.wire))
       /\ Len(o.wire) <= o.written
       /\ o.acked <= Len(o.wire)
       /\ calls[c].http2Stream => (o.writing # "pending" /\ o.final # "pending")
       /\ o.wireEnded => (o.ending /\ Len(o.wire) = o.written)
       /\ ~calls[c].http2Stream => o.wire = <<>>

\* both messages reached the stream, the first one written before the stream
\* was attached and flushed at attach time, and the stream was ended
C11_Witness ==
  \E c \in Calls :
    /\ calls[c].out.wire = <<1, 2>>
    /\ calls[c].out.flushed
    /\ calls[c].out.wireEnded
    /\ calls[c].out.acked = 2
    /\ calls[c].finalStatus = NoStatus

\* Readable asks for data: _read, called again only after a push
Read(c, more) ==
  /\ calls[c].created
  /\ ~calls[c].inp.reading
  /\ ~calls[c].inp.ended
  /\ Commit(read([World EXCEPT !.calls[c].inp.reading = TRUE], c, more))

\* stream.on('data') of a flowing stream: n messages decoded from the chunk
StreamData(c, n) ==
  /\ StreamLive(c)
  /\ ~calls[c].inp.paused
  /\ ~calls[c].inp.wireEnd
  /\ calls[c].inp.received + n <= MaxMessages
  /\ Commit(tryPushAll(World, c, n))

\* stream.on('end')
StreamEnd(c) ==
  /\ StreamLive(c)
  /\ ~calls[c].inp.paused
  /\ ~calls[c].inp.wireEnd
  /\ Commit(tryPush([World EXCEPT !.calls[c].inp.wireEnd = TRUE], c, EndOfStream))

\* filterStack.receiveMessage settles for a message (lines 128-131)
ReceiveMessageDone(c, message, fulfilled, more) ==
  /\ message \in calls[c].inp.filtering
  /\ LET w == [World EXCEPT !.calls[c].inp.filtering = @ \ {message}]
     IN Commit(IF fulfilled
               THEN handleFilteredRead(w, c, message, more)
               ELSE cancelWithStatus(hookFails(w, c, "receiveMessage"), c, FilterError))

ReadNext ==
  \E c \in Calls :
    \/ CreateCall(c)
    \/ SendMetadata(c, FALSE)
    \/ SendMetadataDone(c, TRUE)
    \/ \E more \in BOOLEAN : Read(c, more)
    \/ \E n \in 1..MaxMessages : StreamData(c, n)
    \/ StreamEnd(c)
    \/ \E message \in 1..MaxMessages, fulfilled, more \in BOOLEAN :
         ReceiveMessageDone(c, message, fulfilled, more)
    \/ \E status \in CancelStatuses : CancelWithStatus(c, status)
    \/ \E rstCode \in SomeRstCodes \cup {"CANCEL"} : StreamClose(c, rstCode)

ReadSpec == MsgInit /\ [][ReadNext]_vars

Delivered(c) == SelectSeq(calls[c].inp.pushed, LAMBDA m : m # EndOfStream)

\* C12: at most one received message of a call is in the receive filters at
\* any time; the messages pushed to the application are the messages of the
\* wire in wire order; the end-of-stream marker is pushed once and last, and
\* when it is the one of the wire every message of the wire came before it.
C12_InboundInOrder ==
  \A c \in Calls :
    LET i == calls[c].inp
    IN /\ Cardinality(i.filtering) <= 1
       /\ i.isReadFilterPending \/ i.filtering = {}
       /\ Delivered(c) = Upto(Len(Delivered(c)))
       /\ Len(Delivered(c)) <= i.received
       /\ \A k \in 1..Len(i.pushed) : i.pushed[k] = EndOfStream => k = Len(i.pushed)
       /\ i.endedByWire => Len(Delivered(c)) = i.received

\* two messages and then the end of the wire were pushed to the application
\* of a call that has not ended
C12_Witness ==
  \E c \in Calls :
    /\ calls[c].inp.pushed = <<1, 2, EndOfStream>>
    /\ calls[c].inp.endedByWire
    /\ calls[c].finalStatus = NoStatus

\* C13: the channel's updateState is never called with the connectivity state
\* its previous call was given: no event handler has called it twice in a row
\* with the same state.
C13_NoRepeatedState ==
  ~chan.repeated

(***************************************************************************)
(* One subchannel on its own: its owners take and drop references, calls   *)
(* attach and end, listeners come and go, and its transports connect,      *)
(* close and go away.                                                      *)
(***************************************************************************)
\* the subchannel as its constructor leaves it
NewSub == [InitSub EXCEPT !.refcount = 0, !.referenced = FALSE]

SubInit ==
  /\ chan = InitChan
  /\ rlb = InitRlb(Config("config", <<>>))
  /\ res = InitRes(FALSE)
  /\ sub = NewSub
  /\ sess = [s \in 1..MaxTransports |-> InitSession]
  /\ calls = [c \in 1..MaxCalls |-> InitCall]
  /\ watch = [x \in 1..MaxWatchers |-> InitWatcher]

Ref ==
  /\ sub.refcount < MaxRefs
  /\ Commit(ref(World))

Unref ==
  /\ sub.refcount > 0
  /\ Commit(unref(World))

\* a call stream attaches to the subchannel, which it was started on in READY
CallRef ==
  /\ sub.connectivityState = READY
  /\ sub.callRefcount < MaxAttached
  /\ Commit(callRef(World))

\* an attached call stream ends
CallUnref ==
  /\ sub.callRefcount > 0
  /\ Commit(callUnref(World))

AddConnectivityStateListener(x, kind) ==
  /\ x \notin Range(sub.stateListeners)
  /\ Commit(addConnectivityStateListener([World EXCEPT !.sub.kinds[x] = kind], x))

RemoveConnectivityStateListener(x) ==
  /\ x \in Range(sub.stateListeners)
  /\ Commit(removeConnectivityStateListener(World, x))

ResetBackoff ==
  /\ sub.connectivityState = TRANSIENT_FAILURE
  /\ Commit(resetBackoff(World))

SubNext ==
  \/ Ref
  \/ Unref
  \/ CallRef
  \/ CallUnref
  \/ \E x \in 1..MaxListeners, kind \in ListenerKinds : AddConnectivityStateListener(x, kind)
  \/ \E x \in 1..MaxListeners : RemoveConnectivityStateListener(x)
  \/ ResetBackoff
  \/ StartConnecting
  \/ \E s \in DOMAIN sess : SessionConnect(s)
  \/ \E s \in DOMAIN sess : SocketClose(s)
  \/ \E s \in DOMAIN sess : SessionClose(s)
  \/ \E s \in DOMAIN sess, g \in SomeGoaways : SessionGoaway(s, g[1], g[2])
  \/ BackoffExpiry
  \/ KeepaliveTimeout
  \/ \E s \in DOMAIN sess : PingCallback(s)

SubSpec == SubInit /\ [][SubNext]_vars

\* C14: between event handlers the subchannel has a transport (session is
\* not null) exactly when its connectivity state is CONNECTING or READY.
C14_SessionIffConnectingOrReady ==
  (sub.session # NoSession) <=> (sub.connectivityState \in {CONNECTING, READY})

\* the subchannel dropped a transport and is connecting with a new one
C14_Witness ==
  /\ sub.connectivityState = CONNECTING
  /\ sub.session # NoSession
  /\ \E s \in DOMAIN sess : s # sub.session /\ sess[s].closing

\* the (source, destination) pairs of the rows of the transition table
TransitionTable ==
  {<<IDLE, CONNECTING>>, <<CONNECTING, READY>>, <<CONNECTING, TRANSIENT_FAILURE>>,
   <<READY, IDLE>>, <<TRANSIENT_FAILURE, IDLE>>, <<TRANSIENT_FAILURE, CONNECTING>>,
   <<IDLE, TRANSIENT_FAILURE>>, <<READY, TRANSIENT_FAILURE>>}

\* C15: every state change the subchannel makes goes from a source to a
\* destination that some row of the transition table pairs: the state changes
\* of every handler are among IDLE->CONNECTING, CONNECTING->READY,
\* CONNECTING->TRANSIENT_FAILURE, READY->IDLE, TRANSIENT_FAILURE->IDLE,
\* TRANSIENT_FAILURE->CONNECTING and {IDLE, READY}->TRANSIENT_FAILURE.
C15_TransitionTable ==
  \A i \in DOMAIN sub.log :
    <<sub.log[i].previousState, sub.log[i].newState>> \in TransitionTable

\* C16: a callUnref or unref that brings both reference counts to zero leaves
\* the subchannel shut down (TRANSIENT_FAILURE, no transport), and one that
\* leaves either count positive changes neither the state nor the transport.
C16_DestroyedIffBothZero ==
  [][(sub'.callRefcount < sub.callRefcount \/ sub'.refcount < sub.refcount) =>
       IF sub'.callRefcount = 0 /\ sub'.refcount = 0
       THEN sub'.connectivityState = TRANSIENT_FAILURE /\ sub'.session = NoSession
       ELSE sub'.connectivityState = sub.connectivityState /\ sub'.session = sub.session]_vars

\* the last reference to a READY subchannel without calls was dropped: the
\* handler made the forced transition READY -> TRANSIENT_FAILURE
C16_Witness ==
  /\ sub.callRefcount = 0
  /\ sub.refcount = 0
  /\ sub.connectivityState = TRANSIENT_FAILURE
  /\ sub.session = NoSession
  /\ Len(sub.log) = 1
  /\ sub.log[1].previousState = READY
  /\ sub.log[1].newState = TRANSIENT_FAILURE

\* C17: whenever the resolving load balancer has no active policy
\* (innerLoadBalancer is null) it has no pending replacement either.
C17_NoReplacementWithoutInner ==
  rlb.innerLoadBalancer = NoLB => rlb.pendingReplacementLoadBalancer = NoLB

\* a replacement took over and, as the active policy, went IDLE and was
\* destroyed, on a load balancer that was not destroyed itself
C17_Witness ==
  /\ rlb.switched
  /\ rlb.innerLoadBalancer = NoLB
  /\ rlb.pendingReplacementLoadBalancer = NoLB
  /\ rlb.currentState # SHUTDOWN

\* s can be got from t by leaving elements out
RECURSIVE IsSubsequence(_, _)
IsSubsequence(s, t) ==
  IF s = <<>> THEN TRUE
  ELSE IF t = <<>> THEN FALSE
  ELSE IF Head(s) = Head(t) THEN IsSubsequence(Tail(s), Tail(t))
  ELSE IsSubsequence(s, Tail(t))

\* the state changes of the running handler, as (previous state, new state)
Transitions == [i \in DOMAIN sub.log |-> <<sub.log[i].previousState, sub.log[i].newState>>]

\* how often the listener x was told the state change e
TimesSeen(x, e) == Cardinality({j \in DOMAIN sub.seen[x] : sub.seen[x][j] = e})

\* C18: what a handler told a listener is told in the order in which the
\* handler changed the state, and every change from READY to another state
\* was told exactly once to each listener registered when it was made.
C18_ListenersSeeTransitionsInOrder ==
  /\ \A x \in DOMAIN sub.seen : IsSubsequence(sub.seen[x], Transitions)
  /\ \A i \in DOMAIN sub.log :
       sub.log[i].previousState = READY =>
         \A x \in Range(sub.log[i].listeners) : TimesSeen(x, Transitions[i]) = 1

(***************************************************************************)
(* The DNS resolver under its resolving load balancer: the target is an IP *)
(* literal or a host name, the runtime takes IPv6 literals or not, and the *)
(* lookups settle in every way.                                            *)
(***************************************************************************)
DnsInit ==
  /\ chan = InitChan
  /\ rlb = InitRlb(Config("config", <<>>))
  /\ \E isIP, ipv6 \in BOOLEAN : res = [InitRes(isIP) EXCEPT !.ipv6 = ipv6]
  /\ sub = InitSub
  /\ sess = [s \in Sessions |-> InitSession]
  /\ calls = [c \in 1..MaxCalls |-> InitCall]
  /\ watch = [x \in 1..MaxWatchers |-> InitWatcher]

\* what dns.lookup(hostname, {all: true}) resolves with
SomeAddressLists ==
  {<<>>, <<Address(4, "a")>>, <<Address(6, "b")>>, <<Address(6, "b"), Address(4, "a")>>,
   <<Address(4, "a"), Address(4, "c"), Address(6, "b")>>}

LookupFulfilled(addressList, txtRecord) ==
  /\ res.lookups > 0
  /\ Commit(lookupFulfilled(World, addressList, txtRecord))

LookupRejected ==
  /\ res.lookups > 0
  /\ Commit(lookupRejected(World))

ImmediateCallback ==
  /\ res.immediates > 0
  /\ Commit(immediateCallback(World))

DnsNext ==
  \/ Close
  \/ GetConnectivityState
  \/ \E addressList \in SomeAddressLists, txtRecord \in TxtRecords :
       LookupFulfilled(addressList, txtRecord)
  \/ LookupRejected
  \/ ImmediateCallback
  \/ BalancerNext

DnsSpec == DnsInit /\ [][DnsNext]_vars

\* the calls of the listener in a trace
Outcomes(trace) ==
  Cardinality({i \in DOMAIN trace : trace[i].k \in {"onSuccessfulResolution", "onError"}})

\* updateResolution was called with (inFlight) or without a lookup pending
Updated(trace, inFlight) ==
  \E i \in DOMAIN trace : trace[i].k = "updateResolution" /\ trace[i].a = inFlight

InFlight(r) == r.lookups + r.immediates

\* C19: a handler calls the listener at most once, and a call of the listener
\* ends one resolution that was started; at most one DNS lookup is in flight;
\* an updateResolution while one is in flight starts nothing and delivers
\* nothing, and one on a host name with none in flight starts a lookup.
C19_OneOutcomePerResolution ==
  [][/\ Outcomes(res'.trace) <= 1
     /\ Outcomes(res'.trace) = 1 => InFlight(res') = InFlight(res) - 1
     /\ res'.lookups <= 1
     /\ res'.pendingResultPromise <=> res'.lookups = 1
     /\ Updated(res'.trace, TRUE) =>
          res'.lookups = res.lookups /\ Outcomes(res'.trace) = 0
     /\ (Updated(res'.trace, FALSE) /\ ~res.isIP) =>
          res.lookups = 0 /\ res'.lookups = 1]_vars

\* updateResolution was called while a lookup was in flight, which still is
C19_Witness ==
  /\ Updated(res.trace, TRUE)
  /\ res.lookups = 1
  /\ rlb.innerLoadBalancer # NoLB

\* the addresses of a lookup the runtime can use
Usable(addressList) ==
  {addressList[j].address : j \in {j \in DOMAIN addressList :
      addressList[j].family = 4 \/ (addressList[j].family = 6 /\ res.ipv6)}}

\* C20: a settled lookup is followed by onError, with the resolver's
\* "Name resolution failed" status, exactly when the address lookup was
\* rejected or gave no usable address; a TXT lookup that failed next to
\* usable addresses is followed by onSuccessfulResolution with these
\* addresses, a null service config and the error "TXT query failed".
C20_ErrorIffNoAddress ==
  \A i \in DOMAIN res.trace :
    res.trace[i].k = "settled" =>
      /\ i < Len(res.trace)
      /\ LET settled == res.trace[i]
             outcome == res.trace[i + 1]
             failed == settled.c \/ Usable(settled.a) = {}
         IN /\ outcome.k = IF failed THEN "onError" ELSE "onSuccessfulResolution"
            /\ failed => outcome.a = ResolutionFailed
            /\ (~failed /\ settled.b = "error") =>
                 /\ {outcome.a[j].address : j \in DOMAIN outcome.a} = Usable(settled.a)
                 /\ outcome.b = NullConfig
                 /\ outcome.c = TxtFailed

\* addresses of both families came with a failed TXT lookup, and the listener
\* was given them with the TXT error
C20_Witness ==
  \E i \in DOMAIN res.trace :
    /\ res.trace[i].k = "settled"
    /\ ~res.trace[i].c
    /\ res.trace[i].b = "error"
    /\ Len(res.trace[i].a) = 3
    /\ i < Len(res.trace)
    /\ res.trace[i + 1].k = "onSuccessfulResolution"
    /\ res.trace[i + 1].c = TxtFailed

\* C21: a call for which a hook of the filter stack failed (sendMessage,
\* receiveMessage, receiveMetadata, receiveTrailers) while it had no final
\* status ends with the status code INTERNAL.
C21_FilterFailureIsInternal ==
  \A c \in Calls :
    (calls[c].hookFailed # "none" /\ calls[c].finalStatus # NoStatus) =>
      calls[c].finalStatus.code = "INTERNAL"

(***************************************************************************)
(* A subchannel constructed with the option grpc.keepalive_time_ms, and    *)
(* its transports, which connect, receive GOAWAY frames and close.         *)
(***************************************************************************)
\* values of the option 'grpc.keepalive_time_ms'
SomeKeepaliveTimes == {1000, 1073741824}

KeepaliveInit ==
  /\ chan = InitChan
  /\ rlb = InitRlb(Config("config", <<>>))
  /\ res = InitRes(FALSE)
  /\ \E keepaliveTimeMs \in SomeKeepaliveTimes :
       sub = [InitSub EXCEPT !.keepaliveTimeMs = keepaliveTimeMs]
  /\ sess = [s \in 1..MaxTransports |-> InitSession]
  /\ calls = [c \in 1..MaxCalls |-> InitCall]
  /\ watch = [x \in 1..MaxWatchers |-> InitWatcher]

KeepaliveNext ==
  \/ StartConnecting
  \/ \E s \in DOMAIN sess : SessionConnect(s)
  \/ \E s \in DOMAIN sess : SocketClose(s)
  \/ \E s \in DOMAIN sess : SessionClose(s)
  \/ \E s \in DOMAIN sess, g \in SomeGoaways : SessionGoaway(s, g[1], g[2])
  \/ BackoffExpiry
  \/ CallRef
  \/ CallUnref
  \/ KeepaliveTimeout
  \/ \E s \in DOMAIN sess : PingCallback(s)
  \/ KeepaliveInterval
  \/ OrphanedKeepaliveTimeout

KeepaliveSpec == KeepaliveInit /\ [][KeepaliveNext]_vars

\* the session that received its GOAWAY in this step
GotGoaway(s) == ~sess[s].goaway /\ sess'[s].goaway

\* C22: keepaliveTimeMs never exceeds 2^31 - 1 and never decreases; a GOAWAY
\* for too many pings on the current transport doubles it, up to 2^31 - 1;
\* any other GOAWAY, a GOAWAY on another transport and every other step
\* leave it as it is.
C22_KeepaliveTimeDoubles ==
  [][/\ sub'.keepaliveTimeMs <= KEEPALIVE_MAX_TIME_MS
     /\ sub'.keepaliveTimeMs >= sub.keepaliveTimeMs
     /\ IF \E s \in DOMAIN sess : GotGoaway(s) /\ sess'[s].tooManyPings /\ sub.session = s
        THEN sub'.keepaliveTimeMs =
               IF sub.keepaliveTimeMs >= 1073741824
               THEN KEEPALIVE_MAX_TIME_MS
               ELSE 2 * sub.keepaliveTimeMs
        ELSE sub'.keepaliveTimeMs = sub.keepaliveTimeMs]_vars

\* two transports were told of too many pings: the time was doubled up to
\* 2^31 - 1 by the first GOAWAY and kept by the second
C22_Witness ==
  /\ sub.keepaliveTimeMs = KEEPALIVE_MAX_TIME_MS
  /\ Cardinality({s \in DOMAIN sess : sess[s].tooManyPings}) >= 2

\* the handler was given a resolution without a service config, with or
\* without (failed) an error for it
ResolvedNull(log, failed) ==
  \E i \in DOMAIN log :
    /\ log[i].k = "resolution"
    /\ log[i].a = NullConfig
    /\ (log[i].b # NoStatus) = failed

\* the handler worked with the service config
WorkedWith(log, config) ==
  \E j \in DOMAIN log : log[j].k = "policy" /\ log[j].b = config

\* C23: a resolution with a null service config and an error for it, coming
\* when the previous successful resolution had explicitly no service config
\* and the channel has a default service config, works with the default
\* service config.
C23_DefaultAfterClearedConfig ==
  [][(/\ ResolvedNull(rlb'.log, TRUE)
      /\ rlb.previousServiceConfig = NullConfig
      /\ rlb.defaultServiceConfig # NullConfig) =>
       WorkedWith(rlb'.log, rlb.defaultServiceConfig)]_vars

\* The policy the spec selects from a working config: the first registered
\* name of its list, pick_first for a null config or an empty list.
PolicyOf(config) ==
  IF config.kind # "config" \/ config.lb = <<>> THEN "pick_first"
  ELSE IF \E i \in DOMAIN config.lb : config.lb[i] \in {"pick_first", "round_robin"}
  THEN config.lb[CHOOSE i \in DOMAIN config.lb :
                   /\ config.lb[i] \in {"pick_first", "round_robin"}
                   /\ \A j \in 1..(i - 1) : config.lb[j] \notin {"pick_first", "round_robin"}]
  ELSE ""

\* the handler worked with the service config and selected the policy
Selected(log, name, config) ==
  \E j \in DOMAIN log : log[j].k = "policy" /\ log[j].a = name /\ log[j].b = config

\* the handler was given the service config
Resolved(log, config) ==
  \E i \in DOMAIN log : log[i].k = "resolution" /\ log[i].a = config

HasConfig(config) == config.kind = "config"

\* C24: a resolution with a service config works with it and remembers it;
\* a later resolution without a service config and with an error for it keeps
\* working with the remembered config and its policy, and leaves it
\* remembered, so that any number of such resolutions in a row do.
C24_RememberedConfigKept ==
  [][/\ \A config \in MoreConfigs :
          (HasConfig(config) /\ Resolved(rlb'.log, config)) =>
            /\ Selected(rlb'.log, PolicyOf(config), config)
            /\ rlb'.previousServiceConfig = config
     /\ (HasConfig(rlb.previousServiceConfig) /\ ResolvedNull(rlb'.log, TRUE)) =>
            /\ Selected(rlb'.log, PolicyOf(rlb.previousServiceConfig),
                        rlb.previousServiceConfig)
            /\ rlb'.previousServiceConfig = rlb.previousServiceConfig]_vars

\* a failing resolution has just been handled with the remembered round_robin
\* config on a channel whose default selects another policy
C24_Witness ==
  /\ ResolvedNull(rlb.log, TRUE)
  /\ rlb.previousServiceConfig = RoundRobinConfig
  /\ PolicyOf(rlb.defaultServiceConfig) = "pick_first"
  /\ Selected(rlb.log, "round_robin", RoundRobinConfig)
  /\ rlb.innerLoadBalancer.name = "round_robin"

Logged(log, kinds) == \E i \in DOMAIN log : log[i].k \in kinds

\* C25: a resolution without a service config and with an error for it, on a
\* channel without a default service config and before any service config or
\* explicit absence of one was seen, is a resolution failure: the error goes
\* through the failure path, no load balancer is created and none is given
\* the address list.
C25_FailureAppliesNothing ==
  [][(/\ ResolvedNull(rlb'.log, TRUE)
      /\ rlb.previousServiceConfig = UndefinedConfig
      /\ rlb.defaultServiceConfig = NullConfig) =>
       /\ Logged(rlb'.log, {"failure"})
       /\ ~Logged(rlb'.log, {"create", "updateAddressList"})]_vars

NoneCompatible ==
  Status("UNAVAILABLE", "All load balancer options in service config are not compatible")

\* C26: the policy selected is the first registered entry of the working
\* config's list, pick_first for a null config or an empty list; a list
\* without a registered entry makes the resolution a failure with UNAVAILABLE
\* that creates, replaces and updates neither the active nor the pending load
\* balancer.
C26_FirstRegisteredPolicy ==
  [][\A j \in DOMAIN rlb'.log :
       rlb'.log[j].k = "policy" =>
         /\ rlb'.log[j].a = PolicyOf(rlb'.log[j].b)
         /\ rlb'.log[j].a = "" =>
              /\ \E i \in DOMAIN rlb'.log :
                   rlb'.log[i].k = "failure" /\ rlb'.log[i].a = NoneCompatible
              /\ ~Logged(rlb'.log, {"create", "updateAddressList", "destroy", "switchOver"})
              /\ rlb'.innerLoadBalancer = rlb.innerLoadBalancer
              /\ rlb'.pendingReplacementLoadBalancer = rlb.pendingReplacementLoadBalancer]_vars

\* a resolution whose list has no registered entry has just been handled
\* while a policy is active and a replacement is pending
C26_Witness ==
  /\ Selected(rlb.log, "", UnknownPolicyConfig)
  /\ rlb.innerLoadBalancer # NoLB
  /\ rlb.pendingReplacementLoadBalancer # NoLB

\* the handler selected a policy other than the one of the load balancer lb
SelectedOther(log, lb, name) ==
  /\ lb # NoLB
  /\ name \notin {"", lb.name}
  /\ \E j \in DOMAIN log : log[j].k = "policy" /\ log[j].a = name

\* C27: a resolution that selects a policy other than the active one starts
\* a pending replacement and leaves the active policy in place when the
\* active policy last reported READY, and tears the active policy down and
\* makes the new policy the active one within the handling of the resolution
\* when the active policy last reported CONNECTING or TRANSIENT_FAILURE.
C27_ReplaceAtOnceUnlessReady ==
  [][\A name \in {"pick_first", "round_robin"} :
       SelectedOther(rlb'.log, rlb.innerLoadBalancer, name) =>
         /\ rlb.innerBalancerState = READY =>
              /\ rlb'.pendingReplacementLoadBalancer.name = name
              /\ rlb'.innerLoadBalancer = rlb.innerLoadBalancer
         /\ rlb.innerBalancerState \in {CONNECTING, TRANSIENT_FAILURE} =>
              /\ rlb'.innerLoadBalancer.name = name
              /\ \E i \in DOMAIN rlb'.log :
                   /\ rlb'.log[i].k = "destroy"
                   /\ rlb'.log[i].a = rlb.innerLoadBalancer]_vars

\* the events of the kind in the handler's log
Events(log, kind) == {i \in DOMAIN log : log[i].k = kind}

\* one of the two reports that activate a pending replacement
Activating(log, pending) ==
  \/ pending # NoLB /\ \E i \in Events(log, "innerReport") : log[i].a # READY
  \/ \E i \in Events(log, "replacementReport") : log[i].a = READY

\* C28: on a channel that is not closed, while a replacement is pending and
\* the active policy is READY the channel has the active policy's state and picker, and a report of the
\* replacement that does not activate it publishes nothing; the replacement
\* is activated exactly by a non-READY report of the active policy or a
\* READY report of the replacement, and the activation destroys the old
\* policy and publishes the replacement's state and picker together, once.
C28_HotSwap ==
  [][~chan'.closed =>
       /\ (rlb'.pendingReplacementLoadBalancer # NoLB /\ rlb'.innerBalancerState = READY) =>
            /\ chan'.connectivityState = rlb'.innerBalancerState
            /\ chan'.currentPicker = rlb'.innerBalancerPicker
       /\ (Events(rlb'.log, "replacementReport") # {} /\ ~Activating(rlb'.log, rlb.pendingReplacementLoadBalancer)) =>
            /\ Events(rlb'.log, "publish") = {}
            /\ chan'.connectivityState = chan.connectivityState
            /\ chan'.currentPicker = chan.currentPicker
       /\ Events(rlb'.log, "switchOver") # {} <=>
            Activating(rlb'.log, rlb.pendingReplacementLoadBalancer)
       /\ Events(rlb'.log, "switchOver") # {} =>
            /\ \E i \in Events(rlb'.log, "destroy") :
                 rlb'.log[i].a = rlb.innerLoadBalancer /\ rlb'.log[i].b = "inner"
            /\ rlb'.innerLoadBalancer = rlb.pendingReplacementLoadBalancer
            /\ rlb'.pendingReplacementLoadBalancer = NoLB
            /\ Cardinality(Events(rlb'.log, "publish")) = 1
            /\ \A i \in Events(rlb'.log, "publish") :
                 /\ rlb'.log[i].a = rlb'.replacementBalancerState
                 /\ rlb'.log[i].b = rlb'.replacementBalancerPicker
            /\ chan'.connectivityState = rlb'.replacementBalancerState
            /\ chan'.currentPicker = rlb'.replacementBalancerPicker]_vars

\* a replacement that had reported CONNECTING while the active policy served
\* has just been activated by its READY report
C28_Witness ==
  /\ Events(rlb.log, "switchOver") # {}
  /\ \E i \in Events(rlb.log, "replacementReport") : rlb.log[i].a = READY
  /\ rlb.switched
  /\ chan.connectivityState = READY
  /\ chan.currentPicker = CompletePicker

\* C29: pickers are never mixed; in particular the state and picker
\* published on the activation of a replacement were reported by that
\* replacement instance: it has reported before, or reports in, the step that
\* activates it, so that the pair is never the one left by an earlier
\* replacement or the placeholder the fields start with.
C29_ActivatedPairIsReported ==
  [][Events(rlb'.log, "switchOver") # {} =>
       \/ rlb.pendingReported
       \/ Events(rlb'.log, "replacementReport") # {}]_vars

\* C30: a resolution failure publishes TRANSIENT_FAILURE with an
\* UnavailablePicker carrying the error when there is no active policy or the
\* active policy's last reported state is IDLE, and otherwise publishes
\* nothing and leaves the channel's state and picker and the active policy as
\* they are; in both cases the backoff timer of the resolver is running
\* afterwards.
C30_FailurePublishedOnlyWhenIdle ==
  [][\A i \in Events(rlb'.log, "failure") :
       /\ rlb'.backoffRunning
       /\ (rlb.innerLoadBalancer = NoLB \/ rlb.innerBalancerState = IDLE) =>
            /\ \E j \in Events(rlb'.log, "publish") :
                 /\ j > i
                 /\ rlb'.log[j].a = TRANSIENT_FAILURE
                 /\ rlb'.log[j].b = UnavailablePicker(rlb'.log[i].a)
            /\ chan'.connectivityState = TRANSIENT_FAILURE
            /\ chan'.currentPicker = UnavailablePicker(rlb'.log[i].a)
       /\ (rlb.innerLoadBalancer # NoLB /\ rlb.innerBalancerState # IDLE) =>
            /\ Events(rlb'.log, "publish") = {}
            /\ chan'.connectivityState = chan.connectivityState
            /\ chan'.currentPicker = chan.currentPicker
            /\ rlb'.innerLoadBalancer = rlb.innerLoadBalancer
            /\ rlb'.innerBalancerState = rlb.innerBalancerState]_vars

\* a resolution failure has just been handled while the active policy was
\* READY: the channel is still READY with its picker and the backoff runs
C30_Witness ==
  /\ Events(rlb.log, "failure") # {}
  /\ Events(rlb.log, "publish") = {}
  /\ rlb.innerLoadBalancer # NoLB
  /\ rlb.innerBalancerState = READY
  /\ chan.connectivityState = READY
  /\ chan.currentPicker = CompletePicker
  /\ rlb.backoffRunning

\* the step handles a request to resolve again: requestReresolution of
\* either policy, or exitIdle of an IDLE ResolvingLoadBalancer
Requested(log) ==
  \/ Events(log, "requestReresolution") # {}
  \/ \E i \in Events(log, "exitIdle") : log[i].a = IDLE

\* the step is the expiry of the backoff timer, found with the flag as given
Expired(log, flag) == \E i \in Events(log, "backoffExpiry") : log[i].a = flag

\* C31: while the backoff timer of the ResolvingLoadBalancer runs no
\* resolution is requested from the resolver and every request to resolve
\* again sets continueResolving, which stays set until the expiry; the expiry
\* issues exactly one updateResolution and clears the flag when it is set,
\* and issues none when it is not.
C31_ReresolutionCoalesced ==
  [][/\ (rlb.backoffRunning /\ Events(rlb'.log, "backoffExpiry") = {}) =>
          /\ Events(rlb'.log, "updateResolution") = {}
          /\ Requested(rlb'.log) => rlb'.continueResolving
          /\ rlb.continueResolving => rlb'.continueResolving
     /\ Expired(rlb'.log, TRUE) =>
          /\ Cardinality(Events(rlb'.log, "updateResolution")) = 1
          /\ ~rlb'.continueResolving
     /\ Expired(rlb'.log, FALSE) => Events(rlb'.log, "updateResolution") = {}]_vars

\* every ping sent so far has had its callback run
AllPingsAcknowledged == \A s \in DOMAIN sess : sess[s].pings = 0

\* C32: a ping whose acknowledgement arrives before its timeout does not
\* make the subchannel leave READY, also when pings overlap: a keepalive
\* timer that fires when every ping sent has been acknowledged leaves a READY
\* subchannel READY.
C32_AcknowledgedPingKeepsReady ==
  [][(/\ AllPingsAcknowledged
      /\ sub.connectivityState = READY
      /\ sub'.fired # "none") =>
       sub'.connectivityState = READY]_vars

(***************************************************************************)
(* A channel with one call and a subchannel that reconnects: the           *)
(* transports of earlier connections are still there, and their events     *)
(* arrive while a later transport is the current one.                      *)
(***************************************************************************)
ReconnectInit ==
  /\ chan = InitChan
  /\ rlb = InitRlb(Config("config", <<>>))
  /\ res = InitRes(FALSE)
  /\ sub = InitSub
  /\ sess = [s \in 1..MaxTransports |-> InitSession]
  /\ calls = [c \in 1..MaxCalls |-> InitCall]
  /\ watch = [x \in 1..MaxWatchers |-> InitWatcher]

ReconnectNext ==
  \/ \E c \in Calls : PairCallNext(c)
  \/ StartConnecting
  \/ \E s \in DOMAIN sess : SessionConnect(s)
  \/ \E s \in DOMAIN sess : SocketClose(s)
  \/ \E s \in DOMAIN sess : SessionClose(s)
  \/ \E s \in DOMAIN sess, g \in SomeGoaways : SessionGoaway(s, g[1], g[2])
  \/ BackoffExpiry
  \/ KeepaliveTimeout
  \/ \E s \in DOMAIN sess : PingCallback(s)
  \/ \E p \in Published : UpdateState(p[1], p[2])

ReconnectSpec == ReconnectInit /\ [][ReconnectNext]_vars

\* the step handles an event ('connect', 'close', 'goaway', the socket's
\* 'close') of a session that is not the subchannel's current one
StaleEvent(s) ==
  /\ s # sub.session
  /\ sess[s].st # "unused"
  /\ \/ sess'[s].st # sess[s].st
     \/ sess'[s].socketClosed # sess[s].socketClosed
     \/ sess'[s].goaway # sess[s].goaway

\* C33: an event of a session that is not the subchannel's current session
\* changes neither the connectivity state of the subchannel nor a call
\* attached through the current session: it does not run the disconnect
\* listeners of those calls.
C33_StaleEventsDropped ==
  [][\A s \in DOMAIN sess :
       StaleEvent(s) =>
         /\ sub'.connectivityState = sub.connectivityState
         /\ \A c \in Calls :
              (/\ calls[c].subchannel
               /\ calls[c].streamSession = sub.session
               /\ ~Ended(c)) =>
                calls'[c].finalStatus = NoStatus]_vars

\* C34 as stated: when cancelWithStatus was called while handleTrailers was
\* in flight, the final status of the call is the one the trailers pipeline
\* produced.
C34_CancelDefersToTrailers ==
  \A c \in Calls :
    (calls[c].deferred # NoStatus /\ Ended(c)) =>
      /\ calls[c].trailers = "done"
      /\ calls[c].finalStatus = calls[c].trailerStatus

\* C34 as amended: when cancelWithStatus was called while handleTrailers was
\* in flight, the status of the cancel is discarded: the final status is the
\* one the trailers pipeline produced, unless the call was ended before the
\* trailers pipeline completed by a failure of the receiveMetadata filters or
\* by the subchannel's disconnect listener.
C34_CancelNeverBeatsTrailers ==
  \A c \in Calls :
    (calls[c].deferred # NoStatus /\ Ended(c)) =>
      /\ calls[c].finalStatus # calls[c].deferred
      /\ \/ calls[c].trailers = "done" /\ calls[c].finalStatus = calls[c].trailerStatus
         \/ calls[c].finalStatus \in {HeaderError, ConnectionDropped}

\* a call cancelled with DEADLINE_EXCEEDED while its trailers were in the
\* filters ended with the status of the trailers, and the endCall of the
\* cancel found it ended
C34_Witness ==
  \E c \in Calls :
    /\ calls[c].deferred = DeadlineExceeded
    /\ calls[c].trailers = "done"
    /\ calls[c].finalStatus = calls[c].trailerStatus
    /\ calls[c].invoked
    /\ calls[c].trailersWaiters = <<>>

\* C35: a cancelWithStatus that finds the call without a final status and
\* without trailer handling in flight resets the HTTP/2 stream, if one is
\* attached and open, with CANCEL, and gives the call exactly its status as
\* the final status, which neither the 'close' of the stream nor a later
\* cancelWithStatus changes.
C35_CancelStatusIsFinal ==
  [][\A c \in Calls :
       /\ calls'[c].direct # NoStatus => calls'[c].finalStatus = calls'[c].direct
       /\ (calls[c].direct = NoStatus /\ calls'[c].direct # NoStatus
           /\ calls[c].http2Stream /\ calls[c].stream = "open") =>
            calls'[c].rstCode \in {"CANCEL", calls[c].rstCode} \ {"none"}]_vars

\* a call cancelled with DEADLINE_EXCEEDED while its stream was open: the
\* stream closed with CANCEL, the endCall of the 'close' and the one of a
\* second cancelWithStatus found the call ended with DEADLINE_EXCEEDED
C35_Witness ==
  \E c \in Calls :
    /\ calls[c].direct = DeadlineExceeded
    /\ calls[c].finalStatus = DeadlineExceeded
    /\ calls[c].stream = "closed"
    /\ calls[c].rstCode = "CANCEL"
    /\ calls[c].cancels = MaxCancels
    /\ calls[c].invoked

\* C36: the expiry of the backoff timer moves a subchannel in
\* TRANSIENT_FAILURE to CONNECTING when continueConnecting is set and to IDLE
\* when it is not, continueConnecting is clear once the subchannel is
\* CONNECTING, and an expiry that finds the subchannel in another state makes
\* no transition and leaves its transport alone.
C36_BackoffExpiryOnlyInTransientFailure ==
  [][sub'.fired = "backoff" =>
       /\ sub.connectivityState = TRANSIENT_FAILURE =>
            /\ sub'.log # <<>>
            /\ sub'.log[1].previousState = TRANSIENT_FAILURE
            /\ sub'.log[1].newState = IF sub.continueConnecting THEN CONNECTING ELSE IDLE
       /\ sub'.connectivityState = CONNECTING => ~sub'.continueConnecting
       /\ sub.connectivityState # TRANSIENT_FAILURE =>
            /\ sub'.log = <<>>
            /\ sub'.connectivityState = sub.connectivityState
            /\ sub'.session = sub.session]_vars

\* the subchannel was referenced and its last reference is gone
Unreferenced(subchannel) ==
  /\ subchannel.referenced
  /\ subchannel.callRefcount = 0
  /\ subchannel.refcount = 0

\* C37: a subchannel that has been referenced and has both reference counts
\* at zero holds no transport and opens none while both stay zero: no timer
\* that was pending when the last reference was dropped gives it a transport
\* when it expires.
C37_UnreferencedNeverReconnects ==
  [][(/\ Unreferenced(sub) /\ sub.session = NoSession
      /\ Unreferenced(sub') /\ sub'.fired # "none") =>
       sub'.session = NoSession]_vars

\* C38: a subchannel that is READY and has a positive callRefcount has its
\* keepalive ping interval running, also when the call references are held
\* by calls of an earlier connection.
C38_KeepaliveWhileCallsOnReady ==
  (sub.connectivityState = READY /\ sub.callRefcount > 0) => sub.keepaliveInterval

\* the calls attached to the subchannel that have no final status
HoldingReference == {c \in Calls : calls[c].subchannel /\ ~Ended(c)}

\* C39: callRefcount is never negative and equals the number of attached
\* calls without a final status: a call takes its reference once, when it is
\* attached without a final status, and releases it once, in its first
\* endCall; a call that had ended when its stream was created is not
\* attached, has the stream closed with CANCEL and releases nothing.
C39_CallRefcountCountsLiveCalls ==
  /\ sub.callRefcount >= 0
  /\ sub.callRefcount = Cardinality(HoldingReference)
  /\ \A c \in Calls :
       /\ calls[c].callUnrefs = IF calls[c].subchannel /\ Ended(c) THEN 1 ELSE 0
       /\ (calls[c].stream # "none" /\ ~calls[c].subchannel) => calls[c].rstCode = "CANCEL"

\* a call cancelled while its metadata was with the filters got its stream
\* closed with CANCEL and took no reference
C39_Witness ==
  \E c \in Calls :
    /\ calls[c].finalStatus \in CancelStatuses
    /\ calls[c].sendMetadataResult = "fulfilled"
    /\ calls[c].stream # "none"
    /\ calls[c].rstCode = "CANCEL"
    /\ ~calls[c].subchannel
    /\ calls[c].callUnrefs = 0
    /\ sub.callRefcount = 0

\* C40: whenever the ResolvingLoadBalancer publishes IDLE to the channel, the
\* picker it publishes with it is the QueuePicker, on every path: a report of
\* the active policy, the expiry of the backoff timer and the activation of a
\* replacement.
C40_IdlePublishedWithQueuePicker ==
  [][\A i \in Events(rlb'.log, "publish") :
       rlb'.log[i].a = IDLE => rlb'.log[i].b = QueuePicker]_vars

====
